---- MODULE Spec2Model ----
(***************************************************************************)
(* Fragment physics derivation and environment cloth derivation of the     *)
(* Sollumz YFT exporter (src/yft/yftexport.py).                            *)
(*                                                                         *)
(* Indices stored in fields (group_index, parent_index, bone indices,      *)
(* link indices, vertex indices) are 0-based as in the source; TLA+        *)
(* sequences are 1-based, so element i of a Python list l is l[i + 1].     *)
(* Floats are modelled as exact rationals <<n, d>> (d > 0, lowest terms).  *)
(***************************************************************************)
EXTENDS Integers, Sequences, FiniteSets, TLC

(* ------------------------------ bounds --------------------------------- *)
\* number of bones of the armature
MaxBones == 3
\* largest number of collision objects under the bound composite
MaxCols == 3
\* largest mass of a collision object (child_properties.mass)
MaxMass == 1
\* largest number of physics children drawn for a single function call
MaxChildren == 3

(* --------------------------- program constants ------------------------- *)
\* parent_index of a group without parent group
NoParent == 255
\* divisor of the smallest angular inertia
InertiaDivisor == 10000

(* ------------------------------ rationals ------------------------------ *)
Abs(n) == IF n < 0 THEN -n ELSE n

RECURSIVE GCD(_, _)
GCD(a, b) == IF b = 0 THEN a ELSE GCD(b, a % b)

\* the rational n/d in lowest terms with positive denominator (d # 0)
Rat(n, d) ==
    LET g == GCD(Abs(n), Abs(d))
        s == IF d < 0 THEN -1 ELSE 1
    IN  <<(s * n) \div g, (s * d) \div g>>

I(n) == <<n, 1>>
RAdd(a, b) == Rat(a[1] * b[2] + b[1] * a[2], a[2] * b[2])
RSub(a, b) == Rat(a[1] * b[2] - b[1] * a[2], a[2] * b[2])
RMul(a, b) == Rat(a[1] * b[1], a[2] * b[2])
RNeg(a) == <<-a[1], a[2]>>
\* a / b for b # 0
RDiv(a, b) == Rat(a[1] * b[2], a[2] * b[1])

(* ------------------- mathutils Vector and Matrix ----------------------- *)
ZeroVec == <<I(0), I(0), I(0)>>
IVec(v) == <<I(v[1]), I(v[2]), I(v[3])>>
VAdd(a, b) == <<RAdd(a[1], b[1]), RAdd(a[2], b[2]), RAdd(a[3], b[3])>>
VScale(a, r) == <<RMul(a[1], r), RMul(a[2], r), RMul(a[3], r)>>
VDiv(a, r) == <<RDiv(a[1], r), RDiv(a[2], r), RDiv(a[3], r)>>
VNeg(a) == <<RNeg(a[1]), RNeg(a[2]), RNeg(a[3])>>

IMat(m) == [i \in 1..4 |-> [j \in 1..4 |-> I(m[i][j])]]
Identity4 == IMat(<<<<1, 0, 0, 0>>, <<0, 1, 0, 0>>, <<0, 0, 1, 0>>, <<0, 0, 0, 1>>>>)
\* Matrix.transposed()
Transposed(m) == [i \in 1..4 |-> [j \in 1..4 |-> m[j][i]]]
\* Matrix @ Matrix
MatMul(a, b) ==
    [i \in 1..4 |-> [j \in 1..4 |->
        RAdd(RAdd(RMul(a[i][1], b[1][j]), RMul(a[i][2], b[2][j])),
             RAdd(RMul(a[i][3], b[3][j]), RMul(a[i][4], b[4][j])))]]
\* Matrix (4x4) @ Vector (3D): the vector is extended with w = 1
MatVec(m, v) ==
    [i \in 1..3 |->
        RAdd(RAdd(RMul(m[i][1], v[1]), RMul(m[i][2], v[2])),
             RAdd(RMul(m[i][3], v[3]), m[i][4]))]
\* Matrix.Translation(v)
Translation(v) ==
    [i \in 1..4 |-> [j \in 1..4 |->
        IF i = j THEN I(1) ELSE IF j = 4 THEN v[i] ELSE I(0)]]
\* Matrix.col[3].zero()
ZeroCol3(m) == [i \in 1..4 |-> [j \in 1..4 |-> IF j = 4 THEN I(0) ELSE m[i][j]]]

(* --------------------------- list helpers ------------------------------ *)
RECURSIVE SumSeq(_)
SumSeq(s) == IF s = <<>> THEN 0 ELSE Head(s) + SumSeq(Tail(s))

RECURSIVE Flatten(_)
Flatten(ss) == IF ss = <<>> THEN <<>> ELSE Head(ss) \o Flatten(Tail(ss))

SetMin(S) == CHOOSE x \in S : \A y \in S : x <= y
SetMax(S) == CHOOSE x \in S : \A y \in S : y <= x

\* sorted(keys): the elements of a finite set of integers in ascending order
RECURSIVE Sorted(_)
Sorted(S) == IF S = {} THEN <<>> ELSE <<SetMin(S)>> \o Sorted(S \ {SetMin(S)})

\* Python list index: a negative index counts from the end
PyIndex(i, n) == IF i < 0 THEN i + n ELSE i

(* ------------------------------- state --------------------------------- *)
VARIABLES
    pc,          \* the next step of the derivation ("done"/"error" at its end)
    err,         \* the exception that aborted the derivation, "" if none
    frag_obj,    \* the exported armature: bones, collisions, joints, cloth
    lod_xml,     \* frag_xml.physics.lod1 with its archetype's bounds
    link_xml,    \* links, link_index_by_group and links_center_of_gravity
                 \* as calculate_physics_lod_transforms leaves them
    cloth_mesh,  \* the evaluated cloth mesh: vertices, pinned flags, triangles
    cloth_xml,   \* the vertex maps and edges built by create_frag_env_cloth
    frag_xml,    \* the Fragment create_fragment_xml builds: drawable, physics,
                 \* lights, cloths
    ydd,         \* the drawable dictionary import_ydd reads and the skeleton each member is given
    export,      \* export_yft: the settings, the fragments it creates and the files written
    nav,         \* the navmesh polygon attribute layers of a mesh
    windows,     \* create_vehicle_windows_xml: the window objects, the physics children and materials it reads, the windows and warnings it produces
    skel,        \* create_bone_transforms_xml: the skeleton bones and frag_xml.bones_transforms
    xml          \* a property of the XML object model: its value, the element
                 \* to_xml produced or from_xml is given, and what from_xml
                 \* returned

vars == <<pc, err, frag_obj, lod_xml, link_xml, cloth_mesh, cloth_xml, frag_xml, xml, ydd, export, nav, windows, skel>>

(* ------------------------- the exported armature ----------------------- *)
\* Bone.tag of the bone at an index: a key that is not the index
BoneTag(i) == IF i = 0 THEN 0 ELSE 50 - i

\* lod_props.unbroken_cg_offset
UnbrokenCgOffset == <<0, 0, 1>>

\* Bound.sphere_center of the bound made from collision object k
SphereCenter(k) ==
    CASE k = 1 -> <<0, 0, 0>>
      [] k = 2 -> <<1, 0, 0>>
      [] k = 3 -> <<1, 0, 2>>
      [] OTHER -> <<0, k, 0>>

\* Bound.composite_transform of the bound made from collision object k, in
\* the stored (transposed) layout: the translation is the 4th row
CompositeTransform(k) ==
    CASE k = 1 -> <<<<1, 0, 0, 0>>, <<0, 1, 0, 0>>, <<0, 0, 1, 0>>, <<0, 0, 0, 1>>>>
      [] k = 2 -> <<<<1, 0, 0, 0>>, <<0, 1, 0, 0>>, <<0, 0, 1, 0>>, <<1, 0, 0, 1>>>>
      [] k = 3 -> <<<<0, 1, 0, 0>>, <<-1, 0, 0, 0>>, <<0, 0, 1, 0>>, <<0, 2, 0, 1>>>>
      [] OTHER -> <<<<1, 0, 0, 0>>, <<0, 1, 0, 0>>, <<0, 0, 1, 0>>, <<k, 0, 0, 1>>>>

\* Bound.inertia and Bound.volume of the bound made from collision object k
BoundInertia(k) ==
    CASE k = 1 -> <<1, 2, 3>>
      [] k = 2 -> <<4, 1, 1>>
      [] OTHER -> <<1, k + 2, 2>>
BoundVolume(k) == k

\* the bone flags and joint limits of the drawable: flags by bone index,
\* rotation_limits and translation_limits as the sets of their bone_id
JointConfigs ==
    LET all(fl) == [i \in 1..MaxBones |-> fl]
        last == BoneTag(MaxBones - 1)
    IN  { [flags |-> all({}), rotation_limits |-> {}, translation_limits |-> {}],
          [flags |-> all({"LimitRotation"}),
           rotation_limits |-> {BoneTag(1)}, translation_limits |-> {}],
          [flags |-> all({"LimitTranslation"}),
           rotation_limits |-> {BoneTag(1)}, translation_limits |-> {last}],
          [flags |-> all({"LimitRotation", "LimitTranslation"}),
           rotation_limits |-> {BoneTag(1)}, translation_limits |-> {last}] }

\* armature.bones lists a bone after its parent; -1 is no parent
ParentChoices ==
    { p \in [1..MaxBones -> -1..(MaxBones - 2)] :
        /\ p[1] = -1
        /\ \A i \in 2..MaxBones : p[i] \in {i - 2, i - 3} }

\* a collision object: the bone it is a child of (-1: none) and its mass
ColObjs == [bone : -1..(MaxBones - 1), mass : 0..MaxMass]

SeqsUpTo(S, n) == UNION { [1..k -> S] : k \in 0..n }

FragObjs ==
    { [bones |-> [i \in 1..MaxBones |->
                     [parent_index |-> p[i], use_physics |-> (i - 1 # np),
                      tag |-> BoneTag(i - 1), flags |-> j.flags[i]]],
       rotation_limits |-> j.rotation_limits,
       translation_limits |-> j.translation_limits,
       cloth_bone |-> cb,
       cloth_objs |-> IF cb = -1 THEN 0 ELSE 1,
       cols |-> cs] :
      p \in ParentChoices, np \in -1..(MaxBones - 1), j \in JointConfigs,
      cb \in {-1, MaxBones - 1}, cs \in SeqsUpTo(ColObjs, MaxCols) }

Range0(n) == [i \in 1..n |-> i - 1]
IndexOf(s, x) == (CHOOSE i \in 1..Len(s) : s[i] = x) - 1
InSeq(s, x) == \E i \in 1..Len(s) : s[i] = x

(* -------------------------- create_phys_xml_groups --------------------- *)
does_bone_have_collision(b) ==
    \E k \in 1..Len(frag_obj.cols) : frag_obj.cols[k].bone = b

does_bone_have_cloth(b) == frag_obj.cloth_bone = b

\* bone indices that get a group, ascending (groups_by_bone after its sort)
groups_by_bone ==
    SelectSeq(Range0(Len(frag_obj.bones)),
              LAMBDA b : /\ frag_obj.bones[b + 1].use_physics
                         /\ (does_bone_have_collision(b) \/ does_bone_have_cloth(b)))

RECURSIVE get_group_parent_index(_)
\* faulty variant: no parent group when the parent bone has no group, the
\* grandparent is not tried
get_group_parent_index_parent_only(b) ==
    LET parent_bone == frag_obj.bones[b + 1].parent_index
    IN  IF parent_bone = -1 THEN NoParent
        ELSE IF \/ ~frag_obj.bones[parent_bone + 1].use_physics
                \/ ~InSeq(groups_by_bone, parent_bone)
             THEN NoParent
             ELSE IndexOf(groups_by_bone, parent_bone)

get_group_parent_index(b) ==
    LET parent_bone == frag_obj.bones[b + 1].parent_index
    IN  IF parent_bone = -1 THEN NoParent
        ELSE IF \/ ~frag_obj.bones[parent_bone + 1].use_physics
                \/ ~InSeq(groups_by_bone, parent_bone)
             THEN get_group_parent_index(parent_bone)
             ELSE IndexOf(groups_by_bone, parent_bone)

\* the groups appended to lod_xml.groups; a group is named after its bone
\* (here: the bone's index) and starts with mass 0
create_phys_xml_groups ==
    LET by_bone == groups_by_bone
    IN  [i \in 1..Len(by_bone) |->
            [name |-> by_bone[i],
             parent_index |-> get_group_parent_index(by_bone[i]),
             mass |-> 0]]

CreatePhysXmlGroups ==
    /\ pc = "groups"
    /\ lod_xml' = [lod_xml EXCEPT !.groups = lod_xml.groups \o create_phys_xml_groups]
    /\ pc' = "children"
    /\ UNCHANGED <<err, frag_obj, link_xml, cloth_mesh, cloth_xml, frag_xml, xml, ydd, export, nav, windows, skel>>

(* -------------------------- create_phys_child_xmls --------------------- *)
\* create_composite_xml makes one bound per collision object, in the order
\* of the composite's children: collision object k becomes bound index k - 1
col_obj_to_bound_index(k) == k - 1

\* the collision objects linked to a physics-enabled bone, in composite order
child_col_objs ==
    SelectSeq([k \in 1..Len(frag_obj.cols) |-> k],
              LAMBDA k : /\ frag_obj.cols[k].bone # -1
                         /\ frag_obj.bones[frag_obj.cols[k].bone + 1].use_physics)

\* the keys of a dict in insertion order: each value at its first occurrence
RECURSIVE FirstOccurrences(_)
FirstOccurrences(s) ==
    IF s = <<>> THEN <<>>
    ELSE LET init == FirstOccurrences(SubSeq(s, 1, Len(s) - 1))
             last == s[Len(s)]
         IN  IF InSeq(init, last) THEN init ELSE Append(init, last)

\* get_child_cols(frag_obj).items(): <<bone name, collision objects>> pairs
get_child_cols ==
    LET objs == child_col_objs
        bone_of == [i \in 1..Len(objs) |-> frag_obj.cols[objs[i]].bone]
        keys == FirstOccurrences(bone_of)
    IN  [i \in 1..Len(keys) |->
            <<keys[i], SelectSeq(objs, LAMBDA k : frag_obj.cols[k].bone = keys[i])>>]

\* index of the group named bone_name, -1 if there is none
get_bone_group_index(groups, bone_name) ==
    IF \E i \in 1..Len(groups) : groups[i].name = bone_name
    THEN SetMin({i \in 1..Len(groups) : groups[i].name = bone_name}) - 1
    ELSE -1

\* bound.inertia * mass and bound.volume * mass; Vector() past the bounds
get_child_inertia(bounds, pristine_mass, bound_index) ==
    IF bounds = <<>> \/ bound_index >= Len(bounds)
    THEN <<0, 0, 0>>
    ELSE LET b == bounds[bound_index + 1]
         IN  <<BoundInertia(b)[1] * pristine_mass, BoundInertia(b)[2] * pristine_mass,
               BoundInertia(b)[3] * pristine_mass, BoundVolume(b) * pristine_mass>>

\* the PhysicsChild made from collision object k of the bone bone_name
PhysChildXml(k, bone_name) ==
    [group_index |-> get_bone_group_index(lod_xml.groups, bone_name),
     pristine_mass |-> frag_obj.cols[k].mass,
     damaged_mass |-> frag_obj.cols[k].mass,
     bone_tag |-> frag_obj.bones[bone_name + 1].tag,
     inertia_tensor |-> get_child_inertia(lod_xml.bounds, frag_obj.cols[k].mass,
                                          col_obj_to_bound_index(k)),
     col_obj |-> k]

\* the collision objects in the order their children are created
child_creation_order ==
    LET child_cols == get_child_cols
    IN  Flatten([i \in 1..Len(child_cols) |-> child_cols[i][2]])

\* bounds reordered on the children: a bound without child is dropped to None (0)
reorder_bounds(bounds, base, order) ==
    [i \in 1..Len(bounds) |->
        IF i - base \in 1..Len(order)
        THEN bounds[col_obj_to_bound_index(order[i - base]) + 1]
        ELSE 0]

CreatePhysChildXmls ==
    /\ pc = "children"
    /\ LET order == child_creation_order
           new == [i \in 1..Len(order) |-> PhysChildXml(order[i], frag_obj.cols[order[i]].bone)]
       IN  lod_xml' = [lod_xml EXCEPT
                          !.children = lod_xml.children \o new,
                          !.bounds = reorder_bounds(lod_xml.bounds, Len(lod_xml.children), order)]
    /\ pc' = "masses"
    /\ UNCHANGED <<err, frag_obj, link_xml, cloth_mesh, cloth_xml, frag_xml, xml, ydd, export, nav, windows, skel>>

(* -------------------------- calculate_group_masses --------------------- *)
\* faulty variant: the mass is assigned (=) where it is to be added (+=)
RECURSIVE calculate_group_masses_assigned(_, _)
calculate_group_masses_assigned(groups, children) ==
    IF children = <<>> THEN groups
    ELSE LET child == Head(children)
             g == PyIndex(child.group_index, Len(groups)) + 1
         IN  calculate_group_masses_assigned(
                 [groups EXCEPT ![g].mass = child.pristine_mass], Tail(children))

\* groups[child.group_index].mass += child.pristine_mass, child after child
RECURSIVE calculate_group_masses(_, _)
calculate_group_masses(groups, children) ==
    IF children = <<>> THEN groups
    ELSE LET child == Head(children)
             g == PyIndex(child.group_index, Len(groups)) + 1
         IN  calculate_group_masses(
                 [groups EXCEPT ![g].mass = groups[g].mass + child.pristine_mass],
                 Tail(children))

CalculateGroupMasses ==
    /\ pc = "masses"
    /\ lod_xml' = [lod_xml EXCEPT !.groups = calculate_group_masses(lod_xml.groups, lod_xml.children)]
    /\ pc' = "sort"
    /\ UNCHANGED <<err, frag_obj, link_xml, cloth_mesh, cloth_xml, frag_xml, xml, ydd, export, nav, windows, skel>>

(* -------------------------- sort_cols_and_children --------------------- *)
\* children_by_group after dict(sorted(...)): <<group_index, child indices>>
\* pairs by ascending group_index, the child indices in list order
children_by_group_sorted(children) ==
    LET keys == Sorted({children[i].group_index : i \in 1..Len(children)})
    IN  [j \in 1..Len(keys) |->
            <<keys[j], SelectSeq(Range0(Len(children)),
                                 LAMBDA i : children[i + 1].group_index = keys[j])>>]

\* the old child index at each new child index
sort_order(children) ==
    LET by_group == children_by_group_sorted(children)
    IN  Flatten([j \in 1..Len(by_group) |-> by_group[j][2]])

sorted_children(children) ==
    LET order == sort_order(children)
    IN  [n \in 1..Len(children) |-> children[order[n] + 1]]

\* faulty variant: the bounds are cut to the children but keep their order
sorted_collisions_unpermuted(children, bounds) == SubSeq(bounds, 1, Len(children))

sorted_collisions(children, bounds) ==
    LET order == sort_order(children)
    IN  [n \in 1..Len(children) |-> bounds[order[n] + 1]]

SortColsAndChildren ==
    /\ pc = "sort"
    /\ IF lod_xml.bounds = <<>> \/ lod_xml.children = <<>>
       THEN UNCHANGED lod_xml
       ELSE lod_xml' = [lod_xml EXCEPT
                           !.children = sorted_children(lod_xml.children),
                           !.bounds = sorted_collisions(lod_xml.children, lod_xml.bounds)]
    /\ pc' = "transforms"
    /\ UNCHANGED <<err, frag_obj, link_xml, cloth_mesh, cloth_xml, frag_xml, xml, ydd, export, nav, windows, skel>>

(* --------------------- calculate_physics_lod_transforms ---------------- *)
\* children_by_group[group]: the indices of the children of the group at
\* index g, in list order
children_by_group(children, ngroups, g) ==
    SelectSeq(Range0(Len(children)),
              LAMBDA i : PyIndex(children[i + 1].group_index, ngroups) = g)

\* the first bone of the skeleton with the given tag, -1 if there is none
bone_with_tag(tag) ==
    LET found == {i \in 1..Len(frag_obj.bones) : frag_obj.bones[i].tag = tag}
    IN  IF found = {} THEN -1 ELSE SetMin(found) - 1

\* faulty variant: the bone's flags decide alone, the limits are not looked up
creates_new_link_by_flags(b) ==
    \/ "LimitRotation" \in frag_obj.bones[b + 1].flags
    \/ "LimitTranslation" \in frag_obj.bones[b + 1].flags

\* does the bone at index b form a joint
creates_new_link(b) ==
    LET bone == frag_obj.bones[b + 1]
    IN  \/ "LimitRotation" \in bone.flags /\ bone.tag \in frag_obj.rotation_limits
        \/ "LimitTranslation" \in bone.flags /\ bone.tag \in frag_obj.translation_limits

\* the loop over the groups from group index g on: links are lists of group
\* indices; err names the exception that ends the loop early
RECURSIVE form_links(_, _, _, _, _)
form_links(groups, children, g, links, link_index_by_group) ==
    IF g = Len(groups)
    THEN [err |-> "", links |-> links, link_index_by_group |-> link_index_by_group]
    ELSE
        LET group == groups[g + 1]
            own == children_by_group(children, Len(groups), g)
            bone == bone_with_tag(children[own[1] + 1].bone_tag)
            new_link == group.parent_index # NoParent /\ creates_new_link(bone)
            link_index ==
                IF group.parent_index = NoParent THEN 0
                ELSE IF new_link THEN Len(links)
                ELSE link_index_by_group[group.parent_index + 1]
            links1 == IF new_link THEN Append(links, <<>>) ELSE links
            at == PyIndex(link_index, Len(links1)) + 1
        IN  IF group.parent_index # NoParent /\ own = <<>>
            THEN [err |-> "IndexError", links |-> links,
                  link_index_by_group |-> link_index_by_group]
            ELSE IF group.parent_index # NoParent /\ bone = -1
            THEN [err |-> "StopIteration", links |-> links,
                  link_index_by_group |-> link_index_by_group]
            ELSE form_links(groups, children, g + 1,
                            [links1 EXCEPT ![at] = Append(links1[at], g)],
                            [link_index_by_group EXCEPT ![g + 1] = link_index])

\* world-space center of gravity of a bound: composite_transform.transposed()
\* @ sphere_center, the zero vector for a missing bound
bound_center(b) ==
    IF b = 0 THEN ZeroVec
    ELSE MatVec(Transposed(IMat(CompositeTransform(b))), IVec(SphereCenter(b)))

\* the indices of the children of all groups of a link
link_children(groups, children, link) ==
    Flatten([k \in 1..Len(link) |-> children_by_group(children, Len(groups), link[k])])

RECURSIVE weighted_center_sum(_, _, _)
weighted_center_sum(children, bounds, idx) ==
    IF idx = <<>> THEN ZeroVec
    ELSE VAdd(VScale(bound_center(bounds[Head(idx) + 1]),
                     I(children[Head(idx) + 1].pristine_mass)),
              weighted_center_sum(children, bounds, Tail(idx)))

link_total_mass(children, idx) ==
    SumSeq([k \in 1..Len(idx) |-> children[idx[k] + 1].pristine_mass])

\* links_center_of_gravity before the root offset is added (total mass # 0)
link_center_of_gravity(groups, children, bounds, link) ==
    LET idx == link_children(groups, children, link)
    IN  VDiv(weighted_center_sum(children, bounds, idx), I(link_total_mass(children, idx)))

\* faulty variant: the offset is added to the center of gravity of every link
add_offset_to_every_link(cgs, unknown_50) ==
    [l \in 1..Len(cgs) |-> VAdd(cgs[l], unknown_50)]

\* links_center_of_gravity[0] += lod_xml.unknown_50
add_root_offset(cgs, unknown_50) ==
    [l \in 1..Len(cgs) |-> IF l = 1 THEN VAdd(cgs[l], unknown_50) ELSE cgs[l]]

\* the link attachment of a child: the offset from its bound to its link CG
child_transform(b, link_center) ==
    ZeroCol3(
        IF b = 0 THEN Identity4
        ELSE Transposed(MatMul(Translation(VNeg(link_center)),
                               Transposed(IMat(CompositeTransform(b))))))

\* faulty variant: every child is attached to the root link's center of gravity
root_link_center(children, cgs, link_index_by_group, i) == cgs[1]

\* the center of gravity used for child i
child_link_center(children, cgs, link_index_by_group, i) ==
    cgs[PyIndex(link_index_by_group[PyIndex(children[i].group_index,
                                            Len(link_index_by_group)) + 1],
                Len(cgs)) + 1]

\* the state after the function ran through with the links lf and their
\* centers of gravity cgs
transforms_done(lf, cgs) ==
    /\ link_xml' = [links |-> lf.links,
                    link_index_by_group |-> lf.link_index_by_group,
                    links_center_of_gravity |-> cgs]
    /\ lod_xml' = [lod_xml EXCEPT
           !.position_offset = cgs[1],
           !.unknown_40 = cgs[1],
           !.transforms = lod_xml.transforms \o
               [i \in 1..Len(lod_xml.children) |->
                   child_transform(lod_xml.bounds[i],
                       child_link_center(lod_xml.children, cgs, lf.link_index_by_group, i))]]
    /\ pc' = "archetype" /\ err' = err

CalculatePhysicsLodTransforms ==
    /\ pc = "transforms"
    /\ \E lf \in {form_links(lod_xml.groups, lod_xml.children, 0, <<<<>>>>,
                             [g \in 1..Len(lod_xml.groups) |-> -1])} :
          IF lf.err # ""
          THEN /\ pc' = "error" /\ err' = lf.err
               /\ UNCHANGED <<lod_xml, link_xml>>
          ELSE IF \E l \in 1..Len(lf.links) :
                     link_total_mass(lod_xml.children,
                         link_children(lod_xml.groups, lod_xml.children, lf.links[l])) = 0
          THEN /\ pc' = "error" /\ err' = "ZeroDivisionError"
               /\ UNCHANGED <<lod_xml, link_xml>>
          ELSE \E cgs \in {add_root_offset(
                              [l \in 1..Len(lf.links) |->
                                  link_center_of_gravity(lod_xml.groups, lod_xml.children,
                                                         lod_xml.bounds, lf.links[l])],
                              lod_xml.unknown_50)} :
                  transforms_done(lf, cgs)
    /\ UNCHANGED <<frag_obj, cloth_mesh, cloth_xml, frag_xml, xml, ydd, export, nav, windows, skel>>

(* --------------------- calculate_archetype_mass_inertia ---------------- *)
\* faulty variant: no zero guard, 1 / 0 left as the fraction <<1, 0>>
mass_inv_unguarded(mass) == IF mass # 0 THEN RDiv(I(1), I(mass)) ELSE <<1, 0>>

\* (1 / mass) if mass != 0 else 0
mass_inv(mass) == IF mass # 0 THEN RDiv(I(1), I(mass)) ELSE I(0)

archetype_mass(children) ==
    SumSeq([i \in 1..Len(children) |-> children[i].pristine_mass])

\* the composite inertia tensor (shared.geometry) is not part of the state
CalculateArchetypeMassInertia ==
    /\ pc = "archetype"
    /\ lod_xml' = [lod_xml EXCEPT
           !.archetype_mass = archetype_mass(lod_xml.children),
           !.archetype_mass_inv = mass_inv(archetype_mass(lod_xml.children))]
    /\ pc' = "inertia_limits"
    /\ UNCHANGED <<err, frag_obj, link_xml, cloth_mesh, cloth_xml, frag_xml, xml, ydd, export, nav, windows, skel>>

(* ------------------ calculate_physics_lod_inertia_limits --------------- *)
\* the x, y and z inertia of every child
inertia_values(children) ==
    {children[i].inertia_tensor[a] : i \in 1..Len(children), a \in 1..3}

\* faulty variant: only the x inertia of the children is looked at
largest_x_inertia(children) ==
    SetMax({children[i].inertia_tensor[1] : i \in 1..Len(children)})

largest_inertia(children) == SetMax(inertia_values(children))

smallest_inertia(largest) == RDiv(I(largest), I(InertiaDivisor))

CalculatePhysicsLodInertiaLimits ==
    /\ pc = "inertia_limits"
    /\ IF lod_xml.children = <<>>
       THEN /\ pc' = "error" /\ err' = "ValueError"
            /\ UNCHANGED lod_xml
       ELSE /\ lod_xml' = [lod_xml EXCEPT
                   !.unknown_14 = smallest_inertia(largest_inertia(lod_xml.children)),
                   !.unknown_18 = largest_inertia(lod_xml.children)]
            /\ pc' = "done" /\ err' = err
    /\ UNCHANGED <<frag_obj, link_xml, cloth_mesh, cloth_xml, frag_xml, xml, ydd, export, nav, windows, skel>>

(* ------------------------- specifications ------------------------------ *)
\* frag_xml.physics.lod1 of a new Fragment after create_collision_xml: bound
\* k - 1 is the bound of collision object k
NewLod(ncols) ==
    [groups |-> <<>>, children |-> <<>>, transforms |-> <<>>,
     bounds |-> [k \in 1..ncols |-> k],
     unknown_50 |-> IVec(UnbrokenCgOffset),
     position_offset |-> ZeroVec, unknown_40 |-> ZeroVec,
     unknown_14 |-> I(0), unknown_18 |-> 0,
     archetype_mass |-> 0, archetype_mass_inv |-> I(0)]

NoLinks == [links |-> <<>>, link_index_by_group |-> <<>>, links_center_of_gravity |-> <<>>]

NoClothMesh == [num_vertices |-> 0, pinned |-> <<>>, triangles |-> <<>>]

NoClothXml ==
    [mesh_to_cloth_vertex_map |-> <<>>, cloth_to_mesh_vertex_map |-> <<>>,
     num_pinned |-> 0, edges |-> <<>>, verlet_edges |-> <<>>, pinned_vertices_count |-> 0,
     logged |-> "", env_cloth |-> "None"]

\* frag_xml before create_fragment_xml has set any of its parts
NoFragXml == [drawable |-> "None", physics |-> "None", lights |-> "None", cloths |-> <<>>]

\* no XML property at hand
NoXml == [kind |-> "None", value |-> <<>>, element |-> "None", parsed |-> "None",
          written |-> <<>>]

\* no dictionary is imported
NoYdd == [import_ext_skeleton |-> FALSE, directory |-> <<>>, members |-> <<>>,
          yld |-> [present |-> FALSE, names |-> {}], skel_yft |-> <<>>,
          armature |-> "None", used |-> <<>>, logged |-> ""]

\* nothing is exported
NoFragment == [present |-> FALSE, drawable |-> "None",
               physics |-> [present |-> FALSE, children |-> <<>>],
               vehicle_glass_windows |-> "None"]

NoExport == [export_non_hi |-> FALSE, export_hi |-> FALSE, filepath |-> <<>>,
             obj |-> [is_armature |-> FALSE, has_drawable |-> FALSE,
                      model_very_high |-> FALSE, child_very_high |-> <<>>],
             frag_xml |-> NoFragment, hi_frag_xml |-> NoFragment, heap |-> <<>>,
             files |-> <<>>, returned |-> "", logged |-> ""]

\* no navmesh
NoNav == [data0_present |-> FALSE, data1_present |-> FALSE, polys |-> <<>>, active |-> 0,
          op |-> "", poly_idx |-> 0, poly_attrs |-> <<>>, attr_name |-> "",
          value |-> [bool |-> FALSE, int |-> 0, vector |-> <<>>]]

\* no vehicle windows
NoWindows == [bones |-> <<>>, children |-> <<>>, materials |-> <<>>, objs |-> <<>>,
              vehicle_glass_windows |-> <<>>, logged |-> <<>>]

\* no skeleton
NoSkel == [bones |-> <<>>, bones_transforms |-> <<>>]

\* create_frag_physics_xml of a fragment with a bound composite and bones
Init ==
    /\ pc = "groups"
    /\ err = ""
    /\ frag_obj \in FragObjs
    /\ skel = NoSkel
    /\ windows = NoWindows
    /\ nav = NoNav
    /\ export = NoExport
    /\ ydd = NoYdd
    /\ lod_xml = NewLod(Len(frag_obj.cols))
    /\ link_xml = NoLinks
    /\ cloth_mesh = NoClothMesh
    /\ cloth_xml = NoClothXml
    /\ frag_xml = NoFragXml
    /\ xml = NoXml

Next ==
    \/ CreatePhysXmlGroups
    \/ CreatePhysChildXmls
    \/ CalculateGroupMasses
    \/ SortColsAndChildren
    \/ CalculatePhysicsLodTransforms
    \/ CalculateArchetypeMassInertia
    \/ CalculatePhysicsLodInertiaLimits

Spec == Init /\ [][Next]_vars

\* a physics LOD handed to a single function: any children over its groups,
\* child i made from collision object i, the bounds in the children's order
\* followed by the bounds that have no child
UnitChildren ==
    { [i \in 1..Len(gm) |->
          [group_index |-> gm[i][1], pristine_mass |-> gm[i][2], damaged_mass |-> gm[i][2],
           bone_tag |-> BoneTag(0),
           inertia_tensor |-> get_child_inertia([k \in 1..Len(gm) |-> k], gm[i][2], i - 1),
           col_obj |-> i]] :
      gm \in SeqsUpTo((0..(MaxChildren - 1)) \X (0..MaxMass), MaxChildren) }

NoFragObj ==
    [bones |-> <<>>, rotation_limits |-> {}, translation_limits |-> {},
     cloth_bone |-> -1, cloth_objs |-> 0, cols |-> <<>>]

InitUnit ==
    /\ pc \in {"sort", "archetype"}
    /\ err = ""
    /\ frag_obj = NoFragObj
    /\ skel = NoSkel
    /\ windows = NoWindows
    /\ nav = NoNav
    /\ export = NoExport
    /\ ydd = NoYdd
    /\ \E cs \in UnitChildren, unlinked \in 0..1 :
          /\ pc = "archetype" => unlinked = 0
          /\ lod_xml = [NewLod(Len(cs)) EXCEPT
                           !.children = cs,
                           !.bounds = [k \in 1..(Len(cs) + unlinked) |->
                                          IF k <= Len(cs) THEN k ELSE 0]]
    /\ link_xml = NoLinks
    /\ cloth_mesh = NoClothMesh
    /\ cloth_xml = NoClothXml
    /\ frag_xml = NoFragXml
    /\ xml = NoXml

NextUnit ==
    \/ SortColsAndChildren
    \/ CalculateArchetypeMassInertia

SpecUnit == InitUnit /\ [][NextUnit]_vars

(* ----------------------- create_frag_env_cloth ------------------------- *)
\* largest number of vertices and of loop triangles of the cloth mesh
MaxVerts == 5
MaxTris == 2
\* most triangles of a mesh of separate triangles: with 9 of them a bucket
\* fills up
MaxIslands == 9

\* edges a bucket holds
MAX_EDGES_IN_BUCKET == 8
\* length_sqr of a dummy edge (1e8)
DummyLengthSqr == 100000000

\* v.co of mesh vertex mi
Co(mi) == <<mi, mi * mi, 0>>

\* Vector(a - b).length_squared
LengthSquared(a, b) ==
    (a[1] - b[1]) * (a[1] - b[1]) + (a[2] - b[2]) * (a[2] - b[2])
        + (a[3] - b[3]) * (a[3] - b[3])

\* loop triangles of a strip over the vertices, in either winding
TrianglePool(n) ==
    UNION { {<<i, i + 1, i + 2>>, <<i + 2, i + 1, i>>} : i \in 0..(n - 3) }

ClothMeshes ==
    UNION { { [num_vertices |-> n, pinned |-> p, triangles |-> t] :
                p \in [1..n -> BOOLEAN], t \in SeqsUpTo(TrianglePool(n), MaxTris) } :
            n \in 0..MaxVerts }

\* meshes of up to MaxIslands triangles with no vertex in common, optionally
\* with one more triangle across the first three; pinned vertices are among
\* those of the first triangle
IslandMeshes ==
    { [num_vertices |-> 3 * t,
       pinned |-> [i \in 1..(3 * t) |-> i \in P],
       triangles |-> [i \in 1..t |-> <<3 * (i - 1), 3 * (i - 1) + 1, 3 * (i - 1) + 2>>]
                     \o (IF across /\ t >= 3 THEN <<<<0, 3, 6>>>> ELSE <<>>)] :
      t \in 1..MaxIslands, P \in SUBSET {1, 2, 3}, across \in BOOLEAN }

\* np.sum(pinned)
num_pinned(pinned) == Cardinality({i \in 1..Len(pinned) : pinned[i]})

\* the loop over cloth_mesh.vertices from mesh vertex v on
RECURSIVE reindex_vertices(_, _, _, _, _, _)
reindex_vertices(pinned, v, cloth_pin_index, cloth_unpin_index, m2c, c2m) ==
    IF v = Len(pinned)
    THEN [mesh_to_cloth_vertex_map |-> m2c, cloth_to_mesh_vertex_map |-> c2m]
    ELSE LET vi == IF pinned[v + 1] THEN cloth_pin_index ELSE cloth_unpin_index
         IN  reindex_vertices(pinned, v + 1,
                 IF pinned[v + 1] THEN cloth_pin_index + 1 ELSE cloth_pin_index,
                 IF pinned[v + 1] THEN cloth_unpin_index ELSE cloth_unpin_index + 1,
                 [m2c EXCEPT ![v + 1] = vi],
                 [c2m EXCEPT ![vi + 1] = v])

\* faulty variant: the unpinned vertices are numbered from 0 and the pinned
\* ones after them
vertex_maps_unpinned_first(pinned) ==
    reindex_vertices(pinned, 0, Len(pinned) - num_pinned(pinned), 0,
                     [i \in 1..Len(pinned) |-> -1], [i \in 1..Len(pinned) |-> -1])

\* the vertex maps; -1 stands for an entry left None
vertex_maps(pinned) ==
    reindex_vertices(pinned, 0, 0, num_pinned(pinned),
                     [i \in 1..Len(pinned) |-> -1], [i \in 1..Len(pinned) |-> -1])

ClothVertices ==
    /\ pc = "cloth_vertices"
    /\ LET maps == vertex_maps(cloth_mesh.pinned)
       IN  cloth_xml' = [cloth_xml EXCEPT
               !.mesh_to_cloth_vertex_map = maps.mesh_to_cloth_vertex_map,
               !.cloth_to_mesh_vertex_map = maps.cloth_to_mesh_vertex_map,
               !.num_pinned = num_pinned(cloth_mesh.pinned)]
    /\ pc' = "cloth_edges"
    /\ UNCHANGED <<err, frag_obj, lod_xml, link_xml, cloth_mesh, frag_xml, xml, ydd, export, nav, windows, skel>>

\* faulty variant: a pair added in the opposite direction is not recognised
edge_seen_same_direction(edges_added, edge_v0, edge_v1) ==
    <<edge_v0, edge_v1>> \in edges_added

\* has the pair been added in either direction
edge_seen(edges_added, edge_v0, edge_v1) ==
    <<edge_v0, edge_v1>> \in edges_added \/ <<edge_v1, edge_v0>> \in edges_added

\* faulty variant: the two endpoints are taken the other way round
edge_weight0_swapped(pinned, edge_v0, edge_v1) ==
    IF pinned[edge_v1 + 1] THEN <<0, 1>>
    ELSE IF pinned[edge_v0 + 1] THEN <<1, 1>> ELSE <<1, 2>>

\* 0.0 if the first endpoint is pinned, 1.0 if the second is, else 0.5
edge_weight0(pinned, edge_v0, edge_v1) ==
    IF pinned[edge_v0 + 1] THEN <<0, 1>>
    ELSE IF pinned[edge_v1 + 1] THEN <<1, 1>> ELSE <<1, 2>>

verlet_edge(pinned, m2c, c2m, edge_v0, edge_v1) ==
    [vertex0 |-> m2c[edge_v0 + 1],
     vertex1 |-> m2c[edge_v1 + 1],
     length_sqr |-> LengthSquared(Co(c2m[m2c[edge_v0 + 1] + 1]), Co(c2m[m2c[edge_v1 + 1] + 1])),
     weight0 |-> edge_weight0(pinned, edge_v0, edge_v1),
     compression_weight |-> <<1, 4>>]

\* the sides of the triangles in the order the loops visit them
triangle_sides(triangles) ==
    Flatten([t \in 1..Len(triangles) |->
                <<<<triangles[t][1], triangles[t][2]>>,
                  <<triangles[t][2], triangles[t][3]>>,
                  <<triangles[t][3], triangles[t][1]>>>>])

\* the loop over the sides: the edges appended and the pairs in edges_added
RECURSIVE build_edges(_, _, _, _, _, _)
build_edges(pinned, m2c, c2m, sides, edges, edges_added) ==
    IF sides = <<>> THEN edges
    ELSE LET edge_v0 == Head(sides)[1]
             edge_v1 == Head(sides)[2]
         IN  IF edge_seen(edges_added, edge_v0, edge_v1)
             THEN build_edges(pinned, m2c, c2m, Tail(sides), edges, edges_added)
             ELSE IF pinned[edge_v0 + 1] /\ pinned[edge_v1 + 1]
             THEN build_edges(pinned, m2c, c2m, Tail(sides), edges, edges_added)
             ELSE build_edges(pinned, m2c, c2m, Tail(sides),
                      Append(edges, verlet_edge(pinned, m2c, c2m, edge_v0, edge_v1)),
                      edges_added \cup {<<edge_v0, edge_v1>>})

ClothEdges ==
    /\ pc = "cloth_edges"
    /\ cloth_xml' = [cloth_xml EXCEPT
           !.edges = build_edges(cloth_mesh.pinned, cloth_xml.mesh_to_cloth_vertex_map,
                                 cloth_xml.cloth_to_mesh_vertex_map,
                                 triangle_sides(cloth_mesh.triangles), <<>>, {})]
    /\ pc' = "cloth_buckets"
    /\ UNCHANGED <<err, frag_obj, lod_xml, link_xml, cloth_mesh, frag_xml, xml, ydd, export, nav, windows, skel>>

\* faulty variant: only the first endpoint of e is compared
shares_vertex_first_endpoint(e, f) ==
    e.vertex0 = f.vertex0 \/ e.vertex0 = f.vertex1

\* do two edges have a vertex in common
shares_vertex(e, f) ==
    \/ e.vertex0 = f.vertex0 \/ e.vertex0 = f.vertex1
    \/ e.vertex1 = f.vertex0 \/ e.vertex1 = f.vertex1

can_add_to_bucket(e, bucket) ==
    /\ Len(bucket) < MAX_EDGES_IN_BUCKET
    /\ \A k \in 1..Len(bucket) : ~shares_vertex(e, bucket[k])

\* faulty variant: the buckets before the last one in use are not scanned
place_edge_next_fit(e, edge_buckets) ==
    LET used == {b \in 1..Len(edge_buckets) : edge_buckets[b] # <<>>}
        from == IF used = {} THEN 1 ELSE SetMax(used)
        fit == {b \in from..Len(edge_buckets) : can_add_to_bucket(e, edge_buckets[b])}
    IN  IF fit = {} THEN edge_buckets
        ELSE [edge_buckets EXCEPT ![SetMin(fit)] = Append(edge_buckets[SetMin(fit)], e)]

\* the edge appended to the first bucket that takes it; an edge no bucket
\* takes is left out
place_edge(e, edge_buckets) ==
    LET fit == {b \in 1..Len(edge_buckets) : can_add_to_bucket(e, edge_buckets[b])}
    IN  IF fit = {} THEN edge_buckets
        ELSE [edge_buckets EXCEPT ![SetMin(fit)] = Append(edge_buckets[SetMin(fit)], e)]

RECURSIVE fill_buckets(_, _)
fill_buckets(edges, edge_buckets) ==
    IF edges = <<>> THEN edge_buckets
    ELSE fill_buckets(Tail(edges), place_edge(Head(edges), edge_buckets))

dummy_edge ==
    [vertex0 |-> 0, vertex1 |-> 0, length_sqr |-> DummyLengthSqr,
     weight0 |-> <<0, 1>>, compression_weight |-> <<0, 1>>]

\* faulty variant: every allocated bucket is padded, used or not
padded_edges_every_bucket(edge_buckets) ==
    Flatten([b \in 1..Len(edge_buckets) |->
                [i \in 1..MAX_EDGES_IN_BUCKET |->
                    IF i <= Len(edge_buckets[b]) THEN edge_buckets[b][i]
                    ELSE dummy_edge]])

\* the buckets up to the last one that got an edge, each padded to 8 entries
padded_edges(edge_buckets) ==
    LET used == {b \in 1..Len(edge_buckets) : edge_buckets[b] # <<>>}
        last_bucket_index == IF used = {} THEN -1 ELSE SetMax(used) - 1
    IN  Flatten([b \in 1..(last_bucket_index + 1) |->
                    [i \in 1..MAX_EDGES_IN_BUCKET |->
                        IF i <= Len(edge_buckets[b]) THEN edge_buckets[b][i]
                        ELSE dummy_edge]])

\* faulty variant: one bucket for every four edges
empty_edge_buckets_quarter(edges) == [b \in 1..(Len(edges) \div 4) |-> <<>>]

\* [[] for _ in range(len(edges) * 4)]
empty_edge_buckets(edges) == [b \in 1..(Len(edges) * 4) |-> <<>>]

ClothBuckets ==
    /\ pc = "cloth_buckets"
    /\ cloth_xml' = [cloth_xml EXCEPT
           !.edges = padded_edges(fill_buckets(cloth_xml.edges,
                                               empty_edge_buckets(cloth_xml.edges)))]
    /\ pc' = "cloth_verlet"
    /\ UNCHANGED <<err, frag_obj, lod_xml, link_xml, cloth_mesh, frag_xml, xml, ydd, export, nav, windows, skel>>

ClothVerlet ==
    /\ pc = "cloth_verlet"
    /\ cloth_xml' = [cloth_xml EXCEPT
           !.verlet_edges = cloth_xml.edges,
           !.pinned_vertices_count = cloth_xml.num_pinned]
    /\ pc' = "cloth_done"
    /\ UNCHANGED <<err, frag_obj, lod_xml, link_xml, cloth_mesh, frag_xml, xml, ydd, export, nav, windows, skel>>

\* create_frag_env_cloth of a fragment with one cloth drawable model
InitCloth ==
    /\ pc = "cloth_vertices"
    /\ err = ""
    /\ frag_obj = NoFragObj
    /\ skel = NoSkel
    /\ windows = NoWindows
    /\ nav = NoNav
    /\ export = NoExport
    /\ ydd = NoYdd
    /\ lod_xml = NewLod(0)
    /\ link_xml = NoLinks
    /\ cloth_mesh \in ClothMeshes \cup IslandMeshes
    /\ cloth_xml = NoClothXml
    /\ frag_xml = NoFragXml
    /\ xml = NoXml

NextCloth ==
    \/ ClothVertices
    \/ ClothEdges
    \/ ClothBuckets
    \/ ClothVerlet

SpecCloth == InitCloth /\ [][NextCloth]_vars

(* ------------------------------ claims --------------------------------- *)
\* the sum of the pristine masses of the children at the (1-based) positions S
RECURSIVE MassOver(_, _)
MassOver(children, S) ==
    IF S = {} THEN 0
    ELSE LET i == CHOOSE x \in S : TRUE
         IN  children[i].pristine_mass + MassOver(children, S \ {i})

\* o lists the positions 1..n by ascending group_index, positions of one
\* group in ascending order
IsStableGroupOrder(o, children) ==
    /\ Len(o) = Len(children)
    /\ {o[k] : k \in 1..Len(o)} = 1..Len(children)
    /\ \A a, b \in 1..Len(o) :
          a < b => \/ children[o[a]].group_index < children[o[b]].group_index
                   \/ /\ children[o[a]].group_index = children[o[b]].group_index
                      /\ o[a] < o[b]

\* C1: sort_cols_and_children puts the children in ascending group_index
\* order, children of one group keeping their relative order, and puts the
\* bound of every child at the child's new index.
C1_SortIsStableAndPermutesBounds ==
    [][(pc = "sort" /\ lod_xml.children # <<>> /\ lod_xml.bounds # <<>>) =>
          \E o \in [1..Len(lod_xml.children) -> 1..Len(lod_xml.children)] :
              /\ IsStableGroupOrder(o, lod_xml.children)
              /\ lod_xml'.children = [k \in 1..Len(o) |-> lod_xml.children[o[k]]]
              /\ lod_xml'.bounds = [k \in 1..Len(o) |-> lod_xml.bounds[o[k]]]]_vars

\* C1 witness: children of groups [1,0,1] were sorted into original order
\* [1,0,2], and so were their bounds.
C1_Witness ==
    /\ pc = "transforms"
    /\ Len(lod_xml.children) = 3
    /\ [k \in 1..3 |-> lod_xml.children[k].group_index] = <<0, 1, 1>>
    /\ [k \in 1..3 |-> lod_xml.children[k].col_obj] = <<2, 1, 3>>
    /\ lod_xml.bounds = <<2, 1, 3>>

\* C2: after child creation and sort_cols_and_children there are as many
\* bounds as physics children, and the bound at index i is the bound of the
\* collision object child i was created from.
C2_BoundsMatchChildren ==
    pc = "transforms" =>
        /\ Len(lod_xml.children) = Len(lod_xml.bounds)
        /\ \A i \in 1..Len(lod_xml.children) :
              lod_xml.bounds[i] = lod_xml.children[i].col_obj

\* C3: after calculate_group_masses the mass of every group is the sum of
\* pristine_mass over the children whose group_index is the group's index.
C3_GroupMassIsSumOfChildren ==
    pc \notin {"groups", "children", "masses"} =>
        \A g \in 1..Len(lod_xml.groups) :
            lod_xml.groups[g].mass =
                MassOver(lod_xml.children,
                         {i \in 1..Len(lod_xml.children) :
                              lod_xml.children[i].group_index = g - 1})

\* C3 witness: a group owning exactly two children, both of mass 1, has
\* mass 2, next to a group that owns no child and has mass 0.
C3_Witness ==
    /\ pc = "sort"
    /\ \E g, h \in 1..Len(lod_xml.groups) :
          /\ lod_xml.groups[g].mass = 2
          /\ Cardinality({i \in 1..Len(lod_xml.children) :
                              lod_xml.children[i].group_index = g - 1}) = 2
          /\ \E i, j \in 1..Len(lod_xml.children) :
                /\ i # j
                /\ lod_xml.children[i].group_index = g - 1
                /\ lod_xml.children[j].group_index = g - 1
                /\ lod_xml.children[i].pristine_mass = 1
                /\ lod_xml.children[j].pristine_mass = 1
          /\ lod_xml.groups[h].mass = 0
          /\ \A i \in 1..Len(lod_xml.children) : lod_xml.children[i].group_index # h - 1

\* has calculate_physics_lod_transforms run through
TransformsDone == pc \in {"archetype", "inertia_limits", "done"}

\* the (1-based) positions of the links that hold the group with index g
LinksOf(g) ==
    {l \in 1..Len(link_xml.links) :
        \E k \in 1..Len(link_xml.links[l]) : link_xml.links[l][k] = g}

\* the link index of the group with index g
LinkOf(g) == link_xml.link_index_by_group[g + 1]

\* the bone the first child of the group with index g was created for
FirstChildBone(g) ==
    LET first == SetMin({i \in 1..Len(lod_xml.children) :
                            lod_xml.children[i].group_index = g})
    IN  frag_obj.bones[frag_obj.cols[lod_xml.children[first].col_obj].bone + 1]

\* the bone is flagged as a limited joint and a limit of that kind names it
HasJoint(bone) ==
    \/ /\ "LimitRotation" \in bone.flags
       /\ \E id \in frag_obj.rotation_limits : id = bone.tag
    \/ /\ "LimitTranslation" \in bone.flags
       /\ \E id \in frag_obj.translation_limits : id = bone.tag

\* the group with index g is the first group of a link other than the root
StartsNewLink(g) ==
    /\ LinkOf(g) # 0
    /\ link_xml.links[LinkOf(g) + 1][1] = g

\* C4: link formation partitions the groups; a group without parent is in
\* link 0; a group with a parent starts a new link iff the bone of its first
\* child is a limited joint, and is otherwise in its parent group's link.
C4_LinksPartitionGroups ==
    TransformsDone =>
        /\ Len(link_xml.links) >= 1
        /\ \A l \in 1..Len(link_xml.links) :
              /\ \A k \in 1..Len(link_xml.links[l]) :
                    link_xml.links[l][k] \in 0..(Len(lod_xml.groups) - 1)
              /\ \A j, k \in 1..Len(link_xml.links[l]) :
                    j # k => link_xml.links[l][j] # link_xml.links[l][k]
        /\ \A g \in 0..(Len(lod_xml.groups) - 1) :
              /\ LinksOf(g) = {LinkOf(g) + 1}
              /\ lod_xml.groups[g + 1].parent_index = NoParent => LinkOf(g) = 0
              /\ lod_xml.groups[g + 1].parent_index # NoParent =>
                    /\ StartsNewLink(g) <=> HasJoint(FirstChildBone(g))
                    /\ ~StartsNewLink(g) =>
                          LinkOf(g) = LinkOf(lod_xml.groups[g + 1].parent_index)

\* C4 witness: three groups in a chain; the second starts link 1 at a limited
\* joint and the third, whose bone is flagged but has no limit, joins it.
C4_Witness ==
    /\ TransformsDone
    /\ Len(lod_xml.groups) = 3
    /\ link_xml.links = <<<<0>>, <<1, 2>>>>
    /\ lod_xml.groups[2].parent_index = 0
    /\ lod_xml.groups[3].parent_index = 1
    /\ FirstChildBone(2).flags # {}
    /\ ~HasJoint(FirstChildBone(2))

\* world-space center of the bound of collision object k
WorldCenter(k) ==
    CASE k = 1 -> <<0, 0, 0>>
      [] k = 2 -> <<2, 0, 0>>
      [] k = 3 -> <<0, 3, 2>>
      [] OTHER -> <<k, k, 0>>

\* the (1-based) positions of the children of the groups of link l (0-based)
ChildrenOfLink(l) ==
    {i \in 1..Len(lod_xml.children) : LinkOf(lod_xml.children[i].group_index) = l}

\* sum over the children at the positions S of pristine_mass * center[axis]
RECURSIVE MomentOver(_, _)
MomentOver(S, axis) ==
    IF S = {} THEN 0
    ELSE LET i == CHOOSE x \in S : TRUE
         IN  lod_xml.children[i].pristine_mass * WorldCenter(lod_xml.bounds[i])[axis]
                 + MomentOver(S \ {i}, axis)

\* the configured offset for link 0, nothing for the other links
OffsetOfLink(l) == IF l = 0 THEN UnbrokenCgOffset ELSE <<0, 0, 0>>

\* C5: the center of gravity of every link is the pristine-mass-weighted mean
\* of the world-space bound centers of the children of its groups; the
\* configured offset is added to link 0 only, after the mean; position_offset
\* and unknown_40 are the center of gravity of link 0.
C5_LinkCenterOfGravity ==
    TransformsDone =>
        /\ Len(link_xml.links_center_of_gravity) = Len(link_xml.links)
        /\ \A l \in 0..(Len(link_xml.links) - 1), axis \in 1..3 :
              /\ MassOver(lod_xml.children, ChildrenOfLink(l)) # 0
              /\ link_xml.links_center_of_gravity[l + 1][axis] =
                    RAdd(Rat(MomentOver(ChildrenOfLink(l), axis),
                             MassOver(lod_xml.children, ChildrenOfLink(l))),
                         I(OffsetOfLink(l)[axis]))
        /\ lod_xml.position_offset = link_xml.links_center_of_gravity[1]
        /\ lod_xml.unknown_40 = link_xml.links_center_of_gravity[1]

\* C5 witness: two children of mass 1 in the root link with bound centers
\* (0,0,0) and (2,0,0), offset (0,0,1): the root center of gravity is (1,0,1);
\* a second link has its own center of gravity without the offset.
C5_Witness ==
    /\ TransformsDone
    /\ UnbrokenCgOffset = <<0, 0, 1>>
    /\ {lod_xml.bounds[i] : i \in ChildrenOfLink(0)} = {1, 2}
    /\ \A i \in ChildrenOfLink(0) : lod_xml.children[i].pristine_mass = 1
    /\ lod_xml.position_offset = IVec(<<1, 0, 1>>)
    /\ Len(link_xml.links) = 2
    /\ link_xml.links_center_of_gravity[2] = IVec(WorldCenter(3))

\* the link attachment of the child at position i: the stored transform of
\* its bound with the translation row moved by the center of gravity of the
\* child's link, and the 4th column zero
ExpectedTransform(i) ==
    LET T == CompositeTransform(lod_xml.bounds[i])
        cg == link_xml.links_center_of_gravity[LinkOf(lod_xml.children[i].group_index) + 1]
    IN  [r \in 1..4 |-> [c \in 1..4 |->
            IF c = 4 THEN I(0)
            ELSE IF r = 4 THEN RSub(I(T[4][c]), cg[c])
            ELSE I(T[r][c])]]

\* C6: there is exactly one Transform per physics child, in the final child
\* order; transform i is computed from bound i and the center of gravity of
\* the link holding the group of child i, and its 4th column is zero.
C6_OneTransformPerChild ==
    TransformsDone =>
        /\ Len(lod_xml.transforms) = Len(lod_xml.children)
        /\ \A i \in 1..Len(lod_xml.children) :
              /\ lod_xml.transforms[i] = ExpectedTransform(i)
              /\ \A r \in 1..4 : lod_xml.transforms[i][r][4] = I(0)

\* C6 witness: three children; the one made from collision object 3 is alone
\* in link 1, whose center of gravity (0,3,2) is not the root link's, and its
\* transform has the translation row (0,2,0) - (0,3,2).
C6_Witness ==
    /\ TransformsDone
    /\ Len(lod_xml.transforms) = 3
    /\ \E i \in 1..3 :
          /\ lod_xml.bounds[i] = 3
          /\ ChildrenOfLink(1) = {i}
          /\ link_xml.links_center_of_gravity[2] # link_xml.links_center_of_gravity[1]
          /\ lod_xml.transforms[i][4] = <<I(0), I(-1), I(-2), I(0)>>

\* C7: unknown_18 is the largest x, y or z inertia of all physics children
\* and unknown_14 is that value divided by 10000.
C7_InertiaLimits ==
    pc = "done" =>
        /\ \E i \in 1..Len(lod_xml.children), a \in 1..3 :
              lod_xml.children[i].inertia_tensor[a] = lod_xml.unknown_18
        /\ \A i \in 1..Len(lod_xml.children), a \in 1..3 :
              lod_xml.children[i].inertia_tensor[a] <= lod_xml.unknown_18
        /\ RMul(lod_xml.unknown_14, I(InertiaDivisor)) = I(lod_xml.unknown_18)

\* C7 witness: the largest inertia is the y value of the last of three
\* children and no value of the first child.
C7_Witness ==
    /\ pc = "done"
    /\ Len(lod_xml.children) = 3
    /\ lod_xml.unknown_18 = lod_xml.children[3].inertia_tensor[2]
    /\ \A a \in 1..3 : lod_xml.children[1].inertia_tensor[a] < lod_xml.unknown_18
    /\ lod_xml.unknown_14 = <<1, 2000>>

\* C8: calculate_archetype_mass_inertia sets the archetype mass to the sum
\* of the children's pristine masses and mass_inv to 1 / mass, or to 0 when
\* the mass is 0, and raises no error.
C8_ArchetypeMassAndInverse ==
    pc = "inertia_limits" =>
        /\ err = ""
        /\ lod_xml.archetype_mass = MassOver(lod_xml.children, 1..Len(lod_xml.children))
        /\ lod_xml.archetype_mass # 0 =>
              RMul(lod_xml.archetype_mass_inv, I(lod_xml.archetype_mass)) = I(1)
        /\ lod_xml.archetype_mass = 0 => lod_xml.archetype_mass_inv = I(0)

\* C8 witness: children that all have pristine mass 0 give mass 0 and
\* mass_inv 0.
C8_Witness ==
    /\ pc = "inertia_limits"
    /\ err = ""
    /\ Len(lod_xml.children) = 2
    /\ lod_xml.archetype_mass = 0
    /\ lod_xml.archetype_mass_inv = I(0)

\* the mesh vertices (0-based) that are pinned
PinnedVerts == {v \in 0..(cloth_mesh.num_vertices - 1) : cloth_mesh.pinned[v + 1]}

\* C9: mesh_to_cloth and cloth_to_mesh are total, mutually inverse
\* permutations; pinned mesh vertices get the cloth indices below numPinned,
\* unpinned ones those from numPinned on, each partition in its original
\* order; pinned_vertices_count is numPinned.
C9_VertexReindexing ==
    LET n == cloth_mesh.num_vertices
        m2c == cloth_xml.mesh_to_cloth_vertex_map
        c2m == cloth_xml.cloth_to_mesh_vertex_map
    IN  /\ pc # "cloth_vertices" =>
              /\ Len(m2c) = n /\ Len(c2m) = n
              /\ \A v \in 0..(n - 1) :
                    /\ m2c[v + 1] \in 0..(n - 1)
                    /\ c2m[v + 1] \in 0..(n - 1)
                    /\ c2m[m2c[v + 1] + 1] = v
                    /\ m2c[c2m[v + 1] + 1] = v
                    /\ v \in PinnedVerts <=> m2c[v + 1] < Cardinality(PinnedVerts)
              /\ \A v, w \in 0..(n - 1) :
                    (v < w /\ (v \in PinnedVerts <=> w \in PinnedVerts))
                        => m2c[v + 1] < m2c[w + 1]
        /\ pc = "cloth_done" => cloth_xml.pinned_vertices_count = Cardinality(PinnedVerts)

\* C9 witness: 5 vertices with 1 and 3 pinned; the cloth vertices 0..4 are
\* the mesh vertices 1, 3, 0, 2, 4 and pinned_vertices_count is 2.
C9_Witness ==
    /\ pc = "cloth_done"
    /\ cloth_mesh.num_vertices = 5
    /\ PinnedVerts = {1, 3}
    /\ cloth_xml.cloth_to_mesh_vertex_map = <<1, 3, 0, 2, 4>>
    /\ cloth_xml.mesh_to_cloth_vertex_map = <<2, 0, 3, 1, 4>>
    /\ cloth_xml.pinned_vertices_count = 2

\* the unordered pairs of mesh vertices that are a side of some triangle and
\* have an unpinned endpoint
SimulatedSides ==
    { {cloth_mesh.triangles[t][a], cloth_mesh.triangles[t][b]} :
          t \in 1..Len(cloth_mesh.triangles), a \in 1..3, b \in 1..3 }
      \ ({ {v} : v \in 0..(cloth_mesh.num_vertices - 1) }
            \cup { {v, w} : v \in PinnedVerts, w \in PinnedVerts })

\* the unordered pair of mesh vertices an edge connects
MeshPair(e) ==
    {cloth_xml.cloth_to_mesh_vertex_map[e.vertex0 + 1],
     cloth_xml.cloth_to_mesh_vertex_map[e.vertex1 + 1]}

\* C10: edge construction emits exactly one edge for every unordered vertex
\* pair that is a side of a triangle and has an unpinned endpoint, and no
\* edge with both endpoints pinned.
C10_OneEdgePerSimulatedSide ==
    pc = "cloth_buckets" =>
        /\ \A s \in SimulatedSides :
              Cardinality({k \in 1..Len(cloth_xml.edges) : MeshPair(cloth_xml.edges[k]) = s}) = 1
        /\ \A k \in 1..Len(cloth_xml.edges) :
              /\ MeshPair(cloth_xml.edges[k]) \in SimulatedSides
              /\ ~(/\ cloth_xml.edges[k].vertex0 < cloth_xml.num_pinned
                   /\ cloth_xml.edges[k].vertex1 < cloth_xml.num_pinned)

\* C10 witness: two triangles share the side {1, 2} and traverse it in
\* opposite directions, the side {0, 1} has both endpoints pinned; four edges
\* are emitted, one of them for {1, 2}.
C10_Witness ==
    /\ pc = "cloth_buckets"
    /\ cloth_mesh.triangles = <<<<0, 1, 2>>, <<3, 2, 1>>>>
    /\ PinnedVerts = {0, 1}
    /\ Len(cloth_xml.edges) = 4
    /\ \E k \in 1..4 : MeshPair(cloth_xml.edges[k]) = {1, 2}


(* ------------------------ cloth edges and buckets ----------------------- *)
\* the pairs (first, second mesh vertex) of the sides of the triangles
DirectedSides ==
    { <<cloth_mesh.triangles[t][a], cloth_mesh.triangles[t][(a % 3) + 1]>> :
          t \in 1..Len(cloth_mesh.triangles), a \in 1..3 }

\* the mesh vertices an entry of the edge list goes from and to
MeshEnds(e) ==
    <<cloth_xml.cloth_to_mesh_vertex_map[e.vertex0 + 1],
      cloth_xml.cloth_to_mesh_vertex_map[e.vertex1 + 1]>>

\* an entry that stands for a side of a triangle; the others are padding
IsConstructed(e) == MeshEnds(e) \in DirectedSides

\* the (0-based) bucket of the entry at position j of the final list
BucketAt(j) == (j - 1) \div 8

\* C11: a constructed edge goes from m2c of a side's first vertex to m2c of
\* its second vertex; weight0 is 0.0 if the first is pinned, 1.0 if the
\* second is pinned, 0.5 otherwise; weight0 is 0.0 exactly when vertex0 is
\* below the pinned count.
C11_EdgeWeightAndEndpoints ==
    pc \in {"cloth_buckets", "cloth_verlet", "cloth_done"} =>
        \A k \in 1..Len(cloth_xml.edges) :
            LET e == cloth_xml.edges[k]
                a == MeshEnds(e)[1]
                b == MeshEnds(e)[2]
            IN  IsConstructed(e) =>
                  /\ e.weight0 = (IF a \in PinnedVerts THEN <<0, 1>>
                                  ELSE IF b \in PinnedVerts THEN <<1, 1>> ELSE <<1, 2>>)
                  /\ (e.weight0 = <<0, 1>>) <=> (e.vertex0 < Cardinality(PinnedVerts))
                  /\ e.vertex0 = cloth_xml.mesh_to_cloth_vertex_map[a + 1]
                  /\ e.vertex1 = cloth_xml.mesh_to_cloth_vertex_map[b + 1]

\* C11 witness: triangle (0,1,2) with vertex 1 pinned gives the edges 1->0
\* with weight 1.0 (second endpoint pinned), 0->2 with weight 0.0 (first
\* endpoint pinned) and 2->1 with weight 0.5.
C11_Witness ==
    /\ pc = "cloth_buckets"
    /\ cloth_mesh.triangles = <<<<0, 1, 2>>>>
    /\ PinnedVerts = {1}
    /\ [k \in 1..3 |-> <<cloth_xml.edges[k].vertex0, cloth_xml.edges[k].vertex1,
                         cloth_xml.edges[k].weight0>>]
          = << <<1, 0, <<1, 1>>>>, <<0, 2, <<0, 1>>>>, <<2, 1, <<1, 2>>>> >>


\* the vertex indices of an entry
Ends(e) == {e.vertex0, e.vertex1}

PositionIn(F, e) == CHOOSE j \in 1..Len(F) : F[j] = e

\* would bucket c, holding the edges of E before the k-th that went to it,
\* take the k-th edge: fewer than 8 of them, none sharing a vertex with it
BucketTakes(E, F, k, c) ==
    LET earlier == {i \in 1..(k - 1) : BucketAt(PositionIn(F, E[i])) = c}
    IN  /\ Cardinality(earlier) < 8
        /\ \A i \in earlier : Ends(E[i]) \cap Ends(E[k]) = {}

\* F arranges the edges E first-fit: each edge is in the lowest bucket that
\* takes it, at the slot after the edges that went there before it
IsFirstFit(E, F) ==
    \A k \in 1..Len(E) :
        /\ \E j \in 1..Len(F) : F[j] = E[k]
        /\ LET b == BucketAt(PositionIn(F, E[k]))
           IN  /\ BucketTakes(E, F, k, b)
               /\ \A c \in 0..(b - 1) : ~BucketTakes(E, F, k, c)
               /\ PositionIn(F, E[k]) - 8 * b
                     = Cardinality({i \in 1..(k - 1) : BucketAt(PositionIn(F, E[i])) = b}) + 1

\* C13: bucketing places the edges, in construction order, each in the
\* lowest-indexed bucket that holds fewer than 8 edges and no edge sharing a
\* vertex with it; inside a bucket the edges keep their placement order.
C13_BucketingIsFirstFit ==
    [][pc = "cloth_buckets" => IsFirstFit(cloth_xml.edges, cloth_xml'.edges)]_vars

\* C13 witness: nine separate triangles; buckets 0, 1 and 2 are full when
\* the first edge of the ninth triangle arrives, so it opens bucket 3.
C13_Witness ==
    /\ pc = "cloth_verlet"
    /\ Len(cloth_mesh.triangles) = 9
    /\ PinnedVerts = {}
    /\ \A j \in 1..24 : IsConstructed(cloth_xml.edges[j])
    /\ MeshEnds(cloth_xml.edges[25]) = <<24, 25>>

\* are the padding entries of the final list edges from vertex 0 to vertex
\* 0 of rest length len, found only behind the constructed edges of a bucket
\* that holds one
PaddingIs(len) ==
    /\ \A j \in 1..Len(cloth_xml.edges) :
          ~IsConstructed(cloth_xml.edges[j]) =>
              /\ cloth_xml.edges[j].vertex0 = 0
              /\ cloth_xml.edges[j].vertex1 = 0
              /\ cloth_xml.edges[j].length_sqr = len
              /\ j % 8 # 1
              /\ j % 8 # 0 => ~IsConstructed(cloth_xml.edges[j + 1])

\* C14 as stated: every padding entry is a dummy edge from vertex 0 to vertex
\* 0 whose length_sqr is zero, added only to buckets up to the last bucket
\* that received a real edge.
C14_PaddingIsZeroLength ==
    pc \in {"cloth_verlet", "cloth_done"} => PaddingIs(0)

\* C14 amended: every padding entry is a dummy edge from vertex 0 to vertex 0
\* whose length_sqr is 1e8, added only to buckets up to the last bucket that
\* received a real edge.
C14_PaddingIsDummyEdge ==
    pc \in {"cloth_verlet", "cloth_done"} => PaddingIs(DummyLengthSqr)

\* C14 witness: one triangle gives three buckets of one edge each, every
\* bucket padded with seven dummy edges.
C14_Witness ==
    /\ pc = "cloth_verlet"
    /\ cloth_mesh.triangles = <<<<0, 1, 2>>>>
    /\ PinnedVerts = {}
    /\ Len(cloth_xml.edges) = 24
    /\ IsConstructed(cloth_xml.edges[17])
    /\ \A j \in 18..24 : ~IsConstructed(cloth_xml.edges[j])


(* --------------- create_fragment_xml: attaching the cloth --------------- *)
\* from .cloth import CLOTH_MAX_VERTICES: the value is set in yft/cloth.py,
\* which is not among the sources; create_frag_env_cloth only compares the
\* vertex count with it, and a small value stands for it here
CLOTH_MAX_VERTICES == 4

\* cloth meshes below, at and above the vertex limit
LimitClothMeshes == {m \in ClothMeshes : Len(m.triangles) <= 1}

\* the armature as far as the cloth is concerned: one bone, at most one cloth
\* drawable model, attached to the bone or not
ClothFragObjs ==
    { [bones |-> <<[parent_index |-> -1, use_physics |-> TRUE, tag |-> 0, flags |-> {}]>>,
       rotation_limits |-> {}, translation_limits |-> {},
       cloth_bone |-> cb, cloth_objs |-> n, cols |-> <<>>] :
      cb \in {-1, 0}, n \in 0..1 }

\* frag_xml when create_fragment_xml reaches create_frag_env_cloth: the
\* drawable (with or without models of its own), physics or None, the lights
FragXmlsBeforeCloth ==
    { [drawable |-> d, physics |-> p, lights |-> "lights", cloths |-> <<>>] :
      d \in {"drawable", "empty drawable"}, p \in {"physics", "None"} }

\* faulty variant: a mesh with exactly CLOTH_MAX_VERTICES vertices is rejected
ClothVertexLimitInclusive ==
    /\ pc = "frag_cloth"
    /\ IF frag_obj.cloth_objs = 0
       THEN /\ pc' = "frag_attach"
            /\ UNCHANGED cloth_xml
       ELSE IF cloth_mesh.num_vertices >= CLOTH_MAX_VERTICES
       THEN /\ pc' = "frag_attach"
            /\ cloth_xml' = [cloth_xml EXCEPT !.logged = "cloth with too many vertices"]
       ELSE /\ pc' = "cloth_vertices"
            /\ UNCHANGED cloth_xml
    /\ UNCHANGED <<err, frag_obj, lod_xml, link_xml, cloth_mesh, frag_xml, xml, ydd, export, nav, windows, skel>>

\* create_frag_env_cloth up to the vertex limit: no cloth object or too many
\* vertices return None, the latter after logging an error
ClothVertexLimit ==
    /\ pc = "frag_cloth"
    /\ IF frag_obj.cloth_objs = 0
       THEN /\ pc' = "frag_attach"
            /\ UNCHANGED cloth_xml
       ELSE IF cloth_mesh.num_vertices > CLOTH_MAX_VERTICES
       THEN /\ pc' = "frag_attach"
            /\ cloth_xml' = [cloth_xml EXCEPT !.logged = "cloth with too many vertices"]
       ELSE /\ pc' = "cloth_vertices"
            /\ UNCHANGED cloth_xml
    /\ UNCHANGED <<err, frag_obj, lod_xml, link_xml, cloth_mesh, frag_xml, xml, ydd, export, nav, windows, skel>>

\* the end of create_frag_env_cloth: a cloth not attached to a bone logs an
\* error and returns None, else env_cloth is returned
ClothReturn ==
    /\ pc = "cloth_done"
    /\ IF frag_obj.cloth_bone = -1
       THEN cloth_xml' = [cloth_xml EXCEPT !.logged = "cloth is not attached to a bone"]
       ELSE cloth_xml' = [cloth_xml EXCEPT !.env_cloth = "env_cloth"]
    /\ pc' = "frag_attach"
    /\ UNCHANGED <<err, frag_obj, lod_xml, link_xml, cloth_mesh, frag_xml, xml, ydd, export, nav, windows, skel>>

\* create_fragment_xml after create_frag_env_cloth returned
FragmentAttachCloth ==
    /\ pc = "frag_attach"
    /\ IF cloth_xml.env_cloth # "None"
       THEN frag_xml' = [frag_xml EXCEPT
                !.cloths = <<cloth_xml.env_cloth>>,
                !.drawable = IF frag_xml.drawable = "empty drawable" THEN "None"
                             ELSE frag_xml.drawable,
                !.physics = IF frag_xml.physics = "None" THEN "dummy physics"
                            ELSE frag_xml.physics]
       ELSE UNCHANGED frag_xml
    /\ pc' = "frag_done"
    /\ UNCHANGED <<err, frag_obj, lod_xml, link_xml, cloth_mesh, cloth_xml, xml, ydd, export, nav, windows, skel>>

InitFragment ==
    /\ pc = "frag_cloth"
    /\ err = ""
    /\ frag_obj \in ClothFragObjs
    /\ skel = NoSkel
    /\ windows = NoWindows
    /\ nav = NoNav
    /\ export = NoExport
    /\ ydd = NoYdd
    /\ lod_xml = NewLod(0)
    /\ link_xml = NoLinks
    /\ cloth_mesh \in LimitClothMeshes
    /\ cloth_xml = NoClothXml
    /\ frag_xml \in FragXmlsBeforeCloth
    /\ xml = NoXml

NextFragment ==
    \/ ClothVertexLimit
    \/ ClothVertices
    \/ ClothEdges
    \/ ClothBuckets
    \/ ClothVerlet
    \/ ClothReturn
    \/ FragmentAttachCloth

SpecFragment == InitFragment /\ [][NextFragment]_vars

\* C15: a cloth mesh with more than CLOTH_MAX_VERTICES vertices makes
\* create_frag_env_cloth log an error and return None, and the fragment is
\* returned with its drawable, physics and lights as they were and no cloth;
\* a mesh with exactly CLOTH_MAX_VERTICES vertices is not rejected.
C15_VertexLimit ==
    /\ (/\ pc = "frag_done"
        /\ frag_obj.cloth_objs = 1
        /\ cloth_mesh.num_vertices > CLOTH_MAX_VERTICES)
          => /\ cloth_xml.logged = "cloth with too many vertices"
             /\ cloth_xml.env_cloth = "None"
             /\ frag_xml \in FragXmlsBeforeCloth
             /\ frag_xml.cloths = <<>>
             /\ err = ""
    /\ (/\ pc = "frag_done"
        /\ frag_obj.cloth_objs = 1
        /\ frag_obj.cloth_bone # -1
        /\ cloth_mesh.num_vertices <= CLOTH_MAX_VERTICES)
          => /\ cloth_xml.logged = ""
             /\ frag_xml.cloths = <<"env_cloth">>
             /\ Len(cloth_xml.mesh_to_cloth_vertex_map) = cloth_mesh.num_vertices

\* C15 witness: a fragment with physics whose cloth has one vertex too many
\* is returned with drawable, physics and lights and without cloth.
C15_Witness ==
    /\ pc = "frag_done"
    /\ frag_obj.cloth_objs = 1
    /\ cloth_mesh.num_vertices = CLOTH_MAX_VERTICES + 1
    /\ cloth_xml.logged = "cloth with too many vertices"
    /\ frag_xml = [drawable |-> "drawable", physics |-> "physics",
                   lights |-> "lights", cloths |-> <<>>]


(* ------------------- text: str, int, strip, split ----------------------- *)
\* a text is a sequence of characters, each a string of length 1
DigitChars == <<"0", "1", "2", "3", "4", "5", "6", "7", "8", "9">>

\* str(n) of an int
RECURSIVE PyStr(_)
PyStr(n) ==
    IF n < 0 THEN <<"-">> \o PyStr(-n)
    ELSE IF n < 10 THEN <<DigitChars[n + 1]>>
    ELSE PyStr(n \div 10) \o <<DigitChars[(n % 10) + 1]>>

IsSpace(c) == c \in {" ", "\n"}

\* s.strip()
Strip(s) ==
    LET solid == {i \in 1..Len(s) : ~IsSpace(s[i])}
    IN  IF solid = {} THEN <<>> ELSE SubSeq(s, SetMin(solid), SetMax(solid))

\* s.replace(old, "") for a one-character old
Remove(s, old) == SelectSeq(s, LAMBDA c : c # old)

\* s.split(): the maximal runs of non-space characters, in order
SplitWhitespace(s) ==
    LET starts == Sorted({i \in 1..Len(s) :
                            ~IsSpace(s[i]) /\ (i = 1 \/ IsSpace(s[i - 1]))})
        stop(i) == SetMin({j \in i..Len(s) : j = Len(s) \/ IsSpace(s[j + 1])})
    IN  [k \in 1..Len(starts) |-> SubSeq(s, starts[k], stop(starts[k]))]

\* s.split(sep): the pieces between the occurrences of sep, found from the
\* left; empty pieces included
RECURSIVE Split(_, _)
Split(s, sep) ==
    LET found == {i \in 1..(Len(s) - Len(sep) + 1) : SubSeq(s, i, i + Len(sep) - 1) = sep}
    IN  IF found = {} THEN <<s>>
        ELSE <<SubSeq(s, 1, SetMin(found) - 1)>>
                \o Split(SubSeq(s, SetMin(found) + Len(sep), Len(s)), sep)

\* does int(word) accept the word: an optional sign and digits
IsIntLiteral(word) ==
    LET digits == IF word # <<>> /\ Head(word) \in {"-", "+"} THEN Tail(word) ELSE word
    IN  /\ digits # <<>>
        /\ \A i \in 1..Len(digits) : \E d \in 1..10 : digits[i] = DigitChars[d]

\* the number a sequence of digits stands for
RECURSIVE DigitsValue(_)
DigitsValue(digits) ==
    IF digits = <<>> THEN 0
    ELSE 10 * DigitsValue(SubSeq(digits, 1, Len(digits) - 1))
            + (CHOOSE d \in 0..9 : DigitChars[d + 1] = digits[Len(digits)])

\* int(word) of a word it accepts
PyInt(word) ==
    IF Head(word) = "-" THEN -DigitsValue(Tail(word))
    ELSE IF Head(word) = "+" THEN DigitsValue(Tail(word))
    ELSE DigitsValue(word)

(* --------------------------- IndexDataProperty -------------------------- *)
\* most values of an index list: two full lines of 24 and one more
MaxIndices == 49

\* columns = 24
columns == 24

\* index lists of every length up to MaxIndices: constant, counting up,
\* growing to three digits, and one starting below zero
IndexLists ==
    { [i \in 1..n |-> p[1] + p[2] * (i - 1)] :
      n \in 0..MaxIndices, p \in {<<7, 0>>, <<0, 1>>, <<95, 7>>, <<-3, 1>>} }

\* faulty variant: the line break takes the place of the space
RECURSIVE index_data_text_no_space(_, _)
index_data_text_no_space(value, index) ==
    IF index = Len(value) THEN <<>>
    ELSE PyStr(value[index + 1])
            \o (IF (index + 1) % columns = 0 THEN <<"\n">>
                ELSE IF index < Len(value) - 1 THEN <<" ">> ELSE <<>>)
            \o index_data_text_no_space(value, index + 1)

\* the text to_xml appends for the values from position index on
RECURSIVE index_data_text(_, _)
index_data_text(value, index) ==
    IF index = Len(value) THEN <<>>
    ELSE PyStr(value[index + 1])
            \o (IF index < Len(value) - 1 THEN <<" ">> ELSE <<>>)
            \o (IF (index + 1) % columns = 0 THEN <<"\n">> ELSE <<>>)
            \o index_data_text(value, index + 1)

\* IndexDataProperty.to_xml
IndexDataToXml ==
    /\ pc = "index_to_xml"
    /\ xml' = [xml EXCEPT !.element = [tag |-> "Data", text |-> index_data_text(xml.value, 0)]]
    /\ pc' = "index_from_xml"
    /\ UNCHANGED <<err, frag_obj, lod_xml, link_xml, cloth_mesh, cloth_xml, frag_xml, ydd, export, nav, windows, skel>>

\* element.text.strip().replace("\n", "").split()
index_words(text) == SplitWhitespace(Remove(Strip(text), "\n"))

\* IndexDataProperty.from_xml
IndexDataFromXml ==
    /\ pc = "index_from_xml"
    /\ IF xml.element.text = "None"
       THEN /\ pc' = "error" /\ err' = "AttributeError" /\ UNCHANGED xml
       ELSE \E indices \in {index_words(xml.element.text)} :
              IF \E i \in 1..Len(indices) : ~IsIntLiteral(indices[i])
              THEN /\ pc' = "error" /\ err' = "ValueError" /\ UNCHANGED xml
              ELSE /\ xml' = [xml EXCEPT
                         !.parsed = [i \in 1..Len(indices) |-> PyInt(indices[i])]]
                   /\ pc' = "xml_done"
                   /\ UNCHANGED err
    /\ UNCHANGED <<frag_obj, lod_xml, link_xml, cloth_mesh, cloth_xml, frag_xml, ydd, export, nav, windows, skel>>

(* --------------------------- VertexDataProperty ------------------------- *)
\* most rows of a vertex table
MaxRows == 2

\* vertex values: ints and floats (a float as the fraction it equals)
IntV(n) == [type |-> "int", n |-> n, d |-> 1, word |-> <<>>]
FloatV(r) == [type |-> "float", n |-> r[1], d |-> r[2], word |-> <<>>]
StrV(word) == [type |-> "str", n |-> 0, d |-> 1, word |-> word]

\* str(x) of a vertex value; floats are written with one decimal, as str
\* writes the floats with a denominator of 1, 2, 5 or 10
PyStrValue(x) ==
    IF x.type = "int" THEN PyStr(x.n)
    ELSE IF x.type = "str" THEN x.word
    ELSE LET tenths == (x.n * 10) \div x.d
         IN  (IF tenths < 0 THEN <<"-">> ELSE <<>>)
                \o PyStr(Abs(tenths) \div 10) \o <<".">> \o PyStr(Abs(tenths) % 10)

\* does float(word) accept the word: an optional sign, digits, a point, digits
IsFloatLiteral(word) ==
    LET body == IF word # <<>> /\ Head(word) \in {"-", "+"} THEN Tail(word) ELSE word
        parts == Split(body, <<".">>)
    IN  /\ Len(parts) = 2
        /\ IsIntLiteral(<<"0">> \o parts[1]) /\ parts[1] # <<>>
        /\ IsIntLiteral(<<"0">> \o parts[2]) /\ parts[2] # <<>>

RECURSIVE Pow10(_)
Pow10(k) == IF k = 0 THEN 1 ELSE 10 * Pow10(k - 1)

\* float(word) of a word it accepts
PyFloat(word) ==
    LET body == IF Head(word) \in {"-", "+"} THEN Tail(word) ELSE word
        parts == Split(body, <<".">>)
        r == Rat(DigitsValue(parts[1]) * Pow10(Len(parts[2])) + DigitsValue(parts[2]),
                 Pow10(Len(parts[2])))
    IN  IF Head(word) = "-" THEN RNeg(r) ELSE r

\* get_str_type(word): the int or float the word reads as, else the word
get_str_type(word) ==
    IF IsIntLiteral(word) THEN IntV(PyInt(word))
    ELSE IF IsFloatLiteral(word) THEN FloatV(PyFloat(word))
    ELSE StrV(word)

\* the values the rows are filled with
VertexValues == <<IntV(-1), FloatV(<<1, 1>>), IntV(12), FloatV(<<1, 2>>), IntV(0), FloatV(<<-5, 2>>)>>

\* the numbers of values in the groups of a row
RowShapes == {<<1>>, <<3>>, <<2, 1>>, <<3, 3, 2>>}

\* the row of a shape, filled from the values starting at seed
VertexRow(shape, seed) ==
    [g \in 1..Len(shape) |->
        [j \in 1..shape[g] |-> VertexValues[((seed + 3 * g + j) % Len(VertexValues)) + 1]]]

VertexRows == {VertexRow(shape, seed) : shape \in RowShapes, seed \in 0..1}

\* tables of up to MaxRows rows
VertexTables == SeqsUpTo(VertexRows, MaxRows)

\* ' '.join([str(item) for item in property])
RECURSIVE join_items(_)
join_items(property) ==
    IF property = <<>> THEN <<>>
    ELSE IF Len(property) = 1 THEN PyStrValue(property[1])
    ELSE PyStrValue(property[1]) \o <<" ">> \o join_items(Tail(property))

\* vertex_text with two spaces behind a property
vertex_text_two_spaces(vertex) ==
    Flatten([g \in 1..Len(vertex) |-> join_items(vertex[g]) \o <<" ", " ">>])
        \o <<"\n">>

\* the text of one vertex: every property followed by three spaces, then a
\* newline
vertex_text(vertex) ==
    Flatten([g \in 1..Len(vertex) |-> join_items(vertex[g]) \o <<" ", " ", " ">>])
        \o <<"\n">>

vertex_data_text(value) == Flatten([r \in 1..Len(value) |-> vertex_text(value[r])])

\* VertexDataProperty.to_xml: None for an empty table
vertex_data_to_xml(tag_name, value) ==
    IF Len(value) < 1 THEN "None"
    ELSE [tag |-> tag_name, text |-> vertex_data_text(value)]

VertexDataToXml ==
    /\ pc = "vertex_to_xml"
    /\ xml' = [xml EXCEPT !.element = vertex_data_to_xml("Data", xml.value)]
    /\ pc' = IF Len(xml.value) < 1 THEN "xml_done" ELSE "vertex_from_xml"
    /\ UNCHANGED <<err, frag_obj, lod_xml, link_xml, cloth_mesh, cloth_xml, frag_xml, ydd, export, nav, windows, skel>>

\* one line of the text as a vertex: groups of typed words
vertex_of_line(line) ==
    LET items == Split(Strip(line), <<" ", " ", " ">>)
    IN  [g \in 1..Len(items) |->
            LET words == Split(Strip(items[g]), <<" ">>)
            IN  [j \in 1..Len(words) |-> get_str_type(words[j])]]

\* VertexDataProperty.from_xml of the text of an element (None or "" give
\* the empty table)
vertex_data_from_text(text) ==
    IF text = "None" \/ text = <<>> THEN <<>>
    ELSE LET lines == Split(Strip(text), <<"\n">>)
         IN  [r \in 1..Len(lines) |-> vertex_of_line(lines[r])]

VertexDataFromXml ==
    /\ pc = "vertex_from_xml"
    /\ xml' = [xml EXCEPT !.parsed = vertex_data_from_text(xml.element.text)]
    /\ pc' = "xml_done"
    /\ UNCHANGED <<err, frag_obj, lod_xml, link_xml, cloth_mesh, cloth_xml, frag_xml, ydd, export, nav, windows, skel>>

(* ------------------------------ VertexBuffer ---------------------------- *)
UpperChars == <<"A", "B", "C", "D", "E", "F", "G", "H", "I", "J", "K", "L", "M",
                "N", "O", "P", "Q", "R", "S", "T", "U", "V", "W", "X", "Y", "Z">>
LowerChars == <<"a", "b", "c", "d", "e", "f", "g", "h", "i", "j", "k", "l", "m",
                "n", "o", "p", "q", "r", "s", "t", "u", "v", "w", "x", "y", "z">>

\* name.lower()
lower(name) ==
    [i \in 1..Len(name) |->
        IF \E k \in 1..Len(UpperChars) : UpperChars[k] = name[i]
        THEN LowerChars[CHOOSE k \in 1..Len(UpperChars) : UpperChars[k] = name[i]]
        ELSE name[i]]

\* the channel names of the layouts, as the tags of the Layout children
Position == <<"P", "o", "s", "i", "t", "i", "o", "n">>
Normal == <<"N", "o", "r", "m", "a", "l">>
Colour0 == <<"C", "o", "l", "o", "u", "r", "0">>

Layouts == {<<Position>>, <<Position, Normal>>, <<Position, Normal, Colour0>>}

\* VertexLayoutListProperty.vertex_type: the field names of the namedtuple
vertex_type(layout) == [i \in 1..Len(layout) |-> lower(layout[i])]

\* a Data or Data2 child of the element: absent, or present with its text
DataElements(tables) ==
    {[present |-> FALSE, text |-> <<>>]}
        \cup {[present |-> TRUE, text |-> vertex_data_text(t)] : t \in tables \ {<<>>}}

\* the value of a VertexDataProperty after the children of the element are
\* read: from_xml of the child, the empty default when there is no child
read_vertex_data(child) ==
    IF child.present THEN vertex_data_from_text(child.text) ELSE <<>>

\* the VertexBuffer elements read
VertexBufferElements ==
    {[tag |-> "VertexBuffer", layout |-> l, data |-> d, data2 |-> d2] :
        l \in Layouts,
        d \in DataElements(VertexTables),
        d2 \in DataElements(SeqsUpTo(VertexRows, 1))}

\* vert_type(*vert) with too few or too many groups, pairing the fields with
\* the groups there are
make_vertex_truncating(fields, vert) ==
    LET n == IF Len(fields) < Len(vert) THEN Len(fields) ELSE Len(vert)
    IN  [error |-> "", fields |-> SubSeq(fields, 1, n), values |-> SubSeq(vert, 1, n)]

\* vert_type(*vert): the namedtuple of the groups of a vertex; a TypeError when
\* the number of groups is not the number of fields
make_vertex(fields, vert) ==
    IF Len(vert) # Len(fields) THEN [error |-> "TypeError", fields |-> <<>>, values |-> <<>>]
    ELSE [error |-> "", fields |-> fields, values |-> vert]

\* list(map(lambda vert: vert_type(*vert), data))
make_vertices(fields, data) ==
    IF \E r \in 1..Len(data) : make_vertex(fields, data[r]).error # ""
    THEN [error |-> "TypeError", rows |-> <<>>]
    ELSE [error |-> "", rows |-> [r \in 1..Len(data) |->
                [fields |-> make_vertex(fields, data[r]).fields,
                 values |-> make_vertex(fields, data[r]).values]]]

\* VertexBuffer.from_xml: the elements are read by their own from_xml, then
\* the rows of Data and of Data2 are converted with the type of the layout
VertexBufferFromXml ==
    /\ pc = "buffer_from_xml"
    /\ \E fields \in {vertex_type(xml.element.layout)} :
       \E data \in {make_vertices(fields, read_vertex_data(xml.element.data))} :
       \E data2 \in {make_vertices(fields, read_vertex_data(xml.element.data2))} :
          IF data.error # "" \/ data2.error # ""
          THEN /\ pc' = "error"
               /\ err' = "TypeError"
               /\ UNCHANGED xml
          ELSE /\ pc' = "xml_done"
               /\ xml' = [xml EXCEPT !.parsed = [layout |-> xml.element.layout,
                                                 data |-> data.rows,
                                                 data2 |-> data2.rows]]
               /\ UNCHANGED err
    /\ UNCHANGED <<frag_obj, lod_xml, link_xml, cloth_mesh, cloth_xml, frag_xml, ydd, export, nav, windows, skel>>

(* ------------------------- ParametersListProperty ----------------------- *)
\* most parameter nodes of a Parameters element
MaxParams == 3

\* an XML node: its tag, its type attribute (has_type tells whether it has
\* one), its name attribute and its child nodes
Node(tag, has_type, type, name, children) ==
    [tag |-> tag, has_type |-> has_type, type |-> type, name |-> name,
     children |-> children]

Leaf(tag) == Node(tag, FALSE, "", "", <<>>)

\* the type attributes of the parameter nodes read; "" stands for a node
\* without the attribute
ParamTypes == {"Texture", "Vector", "Array", "Float", "texture", ""}

\* the parameter node with a type at a position: a Texture holds its Name, an
\* Array its Values
ParamNode(type, i) ==
    Node("Item", type # "", type, PyStr(i),
         IF type = "Texture" THEN <<Leaf("Name")>>
         ELSE IF type = "Array" THEN <<Leaf("Value"), Leaf("Value")>>
         ELSE <<>>)

ParametersElements ==
    {Node("Parameters", FALSE, "", "", [i \in 1..Len(types) |-> ParamNode(types[i], i)]) :
        types \in SeqsUpTo(ParamTypes, MaxParams)}

\* element.iter(): the element and the nodes below it, in document order
RECURSIVE iter(_)
iter(element) ==
    <<[element EXCEPT !.children = <<>>]>>
        \o Flatten([i \in 1..Len(element.children) |-> iter(element.children[i])])

\* the items one node adds, whatever its type attribute says
parameter_items_any_type(child) ==
    IF child.has_type THEN <<[variant |-> child.type, name |-> child.name]>> ELSE <<>>

\* the items one node adds to the list: the three tests on its type
parameter_items(child) ==
    IF child.has_type
    THEN (IF child.type = "Texture"
          THEN <<[variant |-> "Texture", name |-> child.name]>> ELSE <<>>)
         \o (IF child.type = "Vector"
             THEN <<[variant |-> "Vector", name |-> child.name]>> ELSE <<>>)
         \o (IF child.type = "Array"
             THEN <<[variant |-> "Array", name |-> child.name]>> ELSE <<>>)
    ELSE <<>>

\* ParametersListProperty.from_xml
ParametersListFromXml ==
    /\ pc = "params_from_xml"
    /\ \E nodes \in {iter(xml.element)} :
          xml' = [xml EXCEPT !.parsed =
                     Flatten([k \in 1..Len(nodes) |-> parameter_items(nodes[k])])]
    /\ pc' = "xml_done"
    /\ UNCHANGED <<err, frag_obj, lod_xml, link_xml, cloth_mesh, cloth_xml, frag_xml, ydd, export, nav, windows, skel>>

(* -------------------------------- Drawable ------------------------------ *)
\* most bounds inside a composite bound
MaxBoundItems == 2

\* the types Drawable.from_xml reads a bound for
BoundTypes == {"Box", "Sphere", "Capsule", "Cylinder", "Disc", "Cloth", "Geometry",
               "GeometryBVH"}

\* the Bounds elements of a drawable: a single bound of one of the types, a
\* bound of a type that is not read, or a composite holding bounds
BoundsElements ==
    {Node("Bounds", TRUE, t, "", <<>>) : t \in BoundTypes \cup {"Mesh"}}
        \cup {Node("Bounds", TRUE, "Composite", "",
                   <<Node("Children", FALSE, "", "",
                          [i \in 1..Len(types) |-> Node("Item", TRUE, types[i], PyStr(i), <<>>)])>>) :
                types \in SeqsUpTo(BoundTypes, MaxBoundItems)}

\* the shader group of a drawable: one shader with a Texture and a Vector
\* parameter
ShaderGroupElement ==
    Node("ShaderGroup", FALSE, "", "",
         <<Node("Shaders", FALSE, "", "",
                <<Node("Item", FALSE, "", "",
                       <<Leaf("Name"),
                         Node("Parameters", FALSE, "", "",
                              <<ParamNode("Texture", 1), ParamNode("Vector", 2)>>)>>)>>)>>)

\* the Drawable elements read: with or without shaders, with or without
\* Bounds
DrawableElements ==
    {Node("Drawable", FALSE, "", "", shaders \o bounds) :
        shaders \in {<<>>, <<ShaderGroupElement>>},
        bounds \in {<<>>} \cup {<<b>> : b \in BoundsElements}}

\* the element after the loop: child.tag = 'Item' on every node that has a
\* type attribute
RECURSIVE retag(_)
retag(element) ==
    [element EXCEPT !.tag = IF element.has_type THEN "Item" ELSE @,
                    !.children = [i \in 1..Len(@) |-> retag(@[i])]]

NoBound == [present |-> FALSE, variant |-> "", tag_name |-> "", name |-> ""]

\* the bound after one node of the walk: read by the class of its type, kept
\* as it was for any other type, and renamed when there is one
bound_after(bound, child) ==
    IF ~child.has_type THEN bound
    ELSE LET read == IF child.type \in BoundTypes
                     THEN [present |-> TRUE, variant |-> child.type,
                           tag_name |-> "Item", name |-> child.name]
                     ELSE bound
         IN  IF read.present THEN [read EXCEPT !.tag_name = "Bounds"] ELSE read

RECURSIVE bound_of_walk(_, _)
bound_of_walk(bound, nodes) ==
    IF nodes = <<>> THEN bound
    ELSE bound_of_walk(bound_after(bound, Head(nodes)), Tail(nodes))

\* Drawable.from_xml
DrawableFromXml ==
    /\ pc = "drawable_from_xml"
    /\ xml' = [xml EXCEPT !.element = retag(xml.element),
                          !.parsed = [bound |-> bound_of_walk(NoBound, iter(xml.element))]]
    /\ pc' = "drawable_to_xml"
    /\ UNCHANGED <<err, frag_obj, lod_xml, link_xml, cloth_mesh, cloth_xml, frag_xml, ydd, export, nav, windows, skel>>

\* Drawable.to_xml: the bound is renamed and written under its tag, behind
\* the other elements of the drawable
DrawableToXml ==
    /\ pc = "drawable_to_xml"
    /\ \E bound \in {IF xml.parsed.bound.present
                     THEN [xml.parsed.bound EXCEPT !.tag_name = "Bounds"]
                     ELSE xml.parsed.bound} :
          xml' = [xml EXCEPT !.parsed = [bound |-> bound],
                             !.written = IF bound.present
                                         THEN <<Node(bound.tag_name, TRUE, bound.variant,
                                                     bound.name, <<>>)>>
                                         ELSE <<>>]
    /\ pc' = "xml_done"
    /\ UNCHANGED <<err, frag_obj, lod_xml, link_xml, cloth_mesh, cloth_xml, frag_xml, ydd, export, nav, windows, skel>>

InitXml ==
    /\ err = ""
    /\ frag_obj = NoFragObj
    /\ skel = NoSkel
    /\ windows = NoWindows
    /\ nav = NoNav
    /\ export = NoExport
    /\ ydd = NoYdd
    /\ lod_xml = NewLod(0)
    /\ link_xml = NoLinks
    /\ cloth_mesh = NoClothMesh
    /\ cloth_xml = NoClothXml
    /\ frag_xml = NoFragXml
    /\ \/ /\ pc = "index_to_xml"
          /\ xml \in {[NoXml EXCEPT !.kind = "IndexData", !.value = v] : v \in IndexLists}
       \/ /\ pc = "vertex_to_xml"
          /\ xml \in {[NoXml EXCEPT !.kind = "VertexData", !.value = v] : v \in VertexTables}
       \/ /\ pc = "buffer_from_xml"
          /\ xml \in {[NoXml EXCEPT !.kind = "VertexBuffer", !.element = e] :
                        e \in VertexBufferElements}
       \/ /\ pc = "params_from_xml"
          /\ xml \in {[NoXml EXCEPT !.kind = "Parameters", !.element = e] :
                        e \in ParametersElements}
       \/ /\ pc = "drawable_from_xml"
          /\ xml \in {[NoXml EXCEPT !.kind = "Drawable", !.value = e, !.element = e] :
                        e \in DrawableElements}

NextXml ==
    \/ IndexDataToXml
    \/ IndexDataFromXml
    \/ VertexDataToXml
    \/ VertexDataFromXml
    \/ VertexBufferFromXml
    \/ ParametersListFromXml
    \/ DrawableFromXml
    \/ DrawableToXml

SpecXml == InitXml /\ [][NextXml]_vars

(* ------------------------------- import_ydd ----------------------------- *)
\* most drawables of a dictionary
MaxMembers == 3

\* the files of the directory of the dictionary
YddFile == <<"p", ".", "y", "d", "d", ".", "x", "m", "l">>
YftFileS == <<"s", ".", "y", "f", "t", ".", "x", "m", "l">>
YftFileT == <<"t", ".", "y", "f", "t", ".", "x", "m", "l">>

\* filepath.endswith(suffix)
EndsWith(filepath, suffix) ==
    /\ Len(filepath) >= Len(suffix)
    /\ SubSeq(filepath, Len(filepath) - Len(suffix) + 1, Len(filepath)) = suffix

\* os.listdir(directory): the dictionary and any of the fragments, in any
\* order
Directories ==
    {d \in SeqsUpTo({YddFile, YftFileS, YftFileT}, 3) :
        /\ \E i \in 1..Len(d) : d[i] = YddFile
        /\ \A i, j \in 1..Len(d) : i # j => d[i] # d[j]}

\* the bones of the skeleton of a fragment file
YftBones(filepath) == IF filepath = YftFileS THEN "S" ELSE "T"

\* the drawables of a dictionary: each with its bones ("" for none)
YddXmls == SeqsUpTo({[bones |-> b] : b \in {"", "A", "B"}}, MaxMembers)

\* the dictionaries imported, with the setting and the cloth dictionary
Ydds ==
    {[NoYdd EXCEPT !.import_ext_skeleton = e, !.directory = d, !.members = m, !.yld = y] :
        e \in BOOLEAN, d \in Directories, m \in YddXmls,
        y \in {[present |-> FALSE, names |-> {}], [present |-> TRUE, names |-> {1}]}}

\* get_first_yft_path: the positions of the fragment files of a listing
yft_positions(directory) ==
    {i \in 1..Len(directory) : EndsWith(directory[i], <<".", "y", "f", "t", ".", "x", "m", "l">>)}

\* find_first_skel: the bones of the first drawable that has bones, "None"
\* when no drawable has
find_first_skel(ydd_xml) ==
    LET with == {k \in 1..Len(ydd_xml) : ydd_xml[k].bones # ""}
    IN  IF with = {} THEN "None" ELSE ydd_xml[SetMin(with)].bones

\* import_ydd taking the external skeleton whatever the setting says
uses_external_skeleton_always(import_ext_skeleton, directory) ==
    yft_positions(directory) # {}

\* import_ydd: is the dictionary created with an external skeleton
uses_external_skeleton(import_ext_skeleton, directory) ==
    import_ext_skeleton /\ yft_positions(directory) # {}

\* import_ydd up to the choice between the two constructors
ImportYdd ==
    /\ pc = "import_ydd"
    /\ IF uses_external_skeleton(ydd.import_ext_skeleton, ydd.directory)
       THEN /\ ydd' = [ydd EXCEPT !.skel_yft = ydd.directory[SetMin(yft_positions(ydd.directory))]]
            /\ pc' = "create_ydd_obj_ext_skel"
       ELSE /\ ydd' = [ydd EXCEPT !.logged = IF ydd.import_ext_skeleton
                                             THEN "Could not find external skeleton yft"
                                             ELSE @]
            /\ pc' = "create_ydd_obj"
    /\ UNCHANGED <<err, frag_obj, lod_xml, link_xml, cloth_mesh, cloth_xml, frag_xml, xml, export, nav, windows, skel>>

\* create_ydd_obj_ext_skel: a drawable without bones gets the bones and the
\* armature of the external skeleton
CreateYddObjExtSkel ==
    /\ pc = "create_ydd_obj_ext_skel"
    /\ ydd' = [ydd EXCEPT
                 !.armature = YftBones(ydd.skel_yft),
                 !.used = [k \in 1..Len(ydd.members) |->
                             IF ydd.members[k].bones = ""
                             THEN [external_bones |-> YftBones(ydd.skel_yft),
                                   external_armature |-> "dict_obj"]
                             ELSE [external_bones |-> "None", external_armature |-> "None"]]]
    /\ pc' = "ydd_done"
    /\ UNCHANGED <<err, frag_obj, lod_xml, link_xml, cloth_mesh, cloth_xml, frag_xml, xml, export, nav, windows, skel>>

\* create_ydd_obj: a drawable without bones gets the bones of the first
\* skeleton of the dictionary; its cloth needs bones from one of the two
CreateYddObj ==
    /\ pc = "create_ydd_obj"
    /\ \E ydd_skel \in {find_first_skel(ydd.members)} :
       \E used \in {[k \in 1..Len(ydd.members) |->
                        [external_bones |-> IF ydd.members[k].bones = "" /\ ydd_skel # "None"
                                            THEN ydd_skel ELSE "None",
                         external_armature |-> "None"]]} :
       \E failing \in {{k \in 1..Len(ydd.members) :
                          /\ ydd.yld.present /\ k \in ydd.yld.names
                          /\ ydd.members[k].bones = "" /\ ydd_skel = "None"}} :
          IF failing = {}
          THEN /\ ydd' = [ydd EXCEPT !.used = used]
               /\ pc' = "ydd_done"
               /\ UNCHANGED err
          ELSE /\ ydd' = [ydd EXCEPT !.used = SubSeq(used, 1, SetMin(failing))]
               /\ pc' = "error"
               /\ err' = "AttributeError"
    /\ UNCHANGED <<frag_obj, lod_xml, link_xml, cloth_mesh, cloth_xml, frag_xml, xml, export, nav, windows, skel>>

InitYdd ==
    /\ pc = "import_ydd"
    /\ err = ""
    /\ frag_obj = NoFragObj
    /\ skel = NoSkel
    /\ windows = NoWindows
    /\ lod_xml = NewLod(0)
    /\ link_xml = NoLinks
    /\ cloth_mesh = NoClothMesh
    /\ cloth_xml = NoClothXml
    /\ frag_xml = NoFragXml
    /\ xml = NoXml
    /\ export = NoExport
    /\ nav = NoNav
    /\ ydd \in Ydds

NextYdd == \/ ImportYdd \/ CreateYddObjExtSkel \/ CreateYddObj

SpecYdd == InitYdd /\ [][NextYdd]_vars


(* ----------------------- create_vehicle_windows_xml --------------------- *)
\* most vehicle window objects of a fragment
MaxWindows == 2

\* the materials of the drawable, in order
WindowMaterials == <<"paint", "vehicle_vehglass">>

\* a vehicle window object: the bone it is a child of (-1: none) and its
\* window material ("None": none; "other_vehglass" is not in the drawable)
WindowObjs == [bone : -1..1, window_mat : {"None", "vehicle_vehglass", "other_vehglass"}]

\* what create_vehicle_windows_xml reads: two bones (the second with or
\* without physics), the group-sorted physics children by their bone tags,
\* the materials and the window objects
WindowInputs ==
    {[NoWindows EXCEPT
        !.bones = <<[use_physics |-> TRUE, tag |-> BoneTag(0)],
                    [use_physics |-> p, tag |-> BoneTag(1)]>>,
        !.children = [i \in 1..Len(tags) |-> [bone_tag |-> tags[i]]],
        !.materials = WindowMaterials,
        !.objs = objs] :
        p \in BOOLEAN,
        tags \in SeqsUpTo({BoneTag(0), BoneTag(1)}, MaxChildren),
        objs \in SeqsUpTo(WindowObjs, MaxWindows)}

\* child_id_by_bone_tag: the index of the last child with the tag, -1 when
\* the tag is no key
child_id_by_bone_tag(children, bone_tag) ==
    LET ids == {i \in 1..Len(children) : children[i].bone_tag = bone_tag}
    IN  IF ids = {} THEN -1 ELSE SetMax(ids) - 1

\* mat_ind_by_name: the index of the last material with the name, -1 when the
\* name is no key
mat_ind_by_name(materials, name) ==
    LET ids == {i \in 1..Len(materials) : materials[i] = name}
    IN  IF ids = {} THEN -1 ELSE SetMax(ids) - 1

\* the warning the loop body gives for a window object, "" when it emits the
\* window
window_warning(w, obj) ==
    IF obj.bone = -1 \/ ~w.bones[obj.bone + 1].use_physics
    THEN "not attached to a bone, or the bone has no physics"
    ELSE IF child_id_by_bone_tag(w.children, w.bones[obj.bone + 1].tag) = -1
    THEN "no physics child"
    ELSE IF obj.window_mat = "None"
    THEN "no material with the vehicle_vehglass shader"
    ELSE IF mat_ind_by_name(w.materials, obj.window_mat) = -1
    THEN "material not used in the Drawable"
    ELSE ""

\* the Window of a window object
window_xml(w, k) ==
    [item_id |-> child_id_by_bone_tag(w.children, w.bones[w.objs[k].bone + 1].tag),
     obj |-> k,
     shader_index |-> mat_ind_by_name(w.materials, w.objs[k].window_mat)]

RECURSIVE sorted_windows(_)
\* the windows in the order the loop appended them
sorted_windows_unsorted(ws) == ws

\* sorted(windows, key=lambda w: w.item_id): ascending and stable
sorted_windows(ws) ==
    IF ws = <<>> THEN <<>>
    ELSE LET least == SetMin({ws[i].item_id : i \in 1..Len(ws)})
             first == SetMin({i \in 1..Len(ws) : ws[i].item_id = least})
         IN  <<ws[first]>> \o sorted_windows(SubSeq(ws, 1, first - 1)
                                              \o SubSeq(ws, first + 1, Len(ws)))

\* create_vehicle_windows_xml
CreateVehicleWindowsXml ==
    /\ pc = "vehicle_windows"
    /\ \E emitted \in {Sorted({k \in 1..Len(windows.objs) :
                                 window_warning(windows, windows.objs[k]) = ""})} :
       \E warned \in {Sorted({k \in 1..Len(windows.objs) :
                                 window_warning(windows, windows.objs[k]) # ""})} :
          windows' = [windows EXCEPT
              !.vehicle_glass_windows =
                  sorted_windows([n \in 1..Len(emitted) |-> window_xml(windows, emitted[n])]),
              !.logged = [n \in 1..Len(warned) |->
                            [obj |-> warned[n],
                             warning |-> window_warning(windows, windows.objs[warned[n]])]]]
    /\ pc' = "frag_lights"
    /\ UNCHANGED <<err, frag_obj, lod_xml, link_xml, cloth_mesh, cloth_xml, frag_xml, xml, ydd, export, nav, skel>>

\* create_fragment_xml goes on behind the windows: the lights
FragmentLights ==
    /\ pc = "frag_lights"
    /\ frag_xml' = [frag_xml EXCEPT !.lights = "lights"]
    /\ pc' = "windows_done"
    /\ UNCHANGED <<err, frag_obj, lod_xml, link_xml, cloth_mesh, cloth_xml, xml, ydd, export, nav, windows, skel>>

InitWindows ==
    /\ pc = "vehicle_windows"
    /\ err = ""
    /\ frag_obj = NoFragObj
    /\ lod_xml = NewLod(0)
    /\ link_xml = NoLinks
    /\ cloth_mesh = NoClothMesh
    /\ cloth_xml = NoClothXml
    /\ frag_xml = [NoFragXml EXCEPT !.drawable = "drawable", !.physics = "physics"]
    /\ xml = NoXml
    /\ ydd = NoYdd
    /\ export = NoExport
    /\ nav = NoNav
    /\ skel = NoSkel
    /\ windows \in WindowInputs

NextWindows == CreateVehicleWindowsXml \/ FragmentLights

SpecWindows == InitWindows /\ [][NextWindows]_vars

(* ----------------------- create_bone_transforms_xml --------------------- *)
\* most bones of a skeleton
MaxSkelBones == 3

\* Bone.translation, rotation (a quaternion w, x, y, z) and scale of the
\* bones drawn: no rotation, half a turn about z, half a turn about x with a
\* scale
BoneLocals ==
    {[translation |-> <<1, 0, 0>>, rotation |-> <<1, 0, 0, 0>>, scale |-> <<1, 1, 1>>],
     [translation |-> <<0, 2, 0>>, rotation |-> <<0, 0, 0, 1>>, scale |-> <<1, 1, 1>>],
     [translation |-> <<0, 0, 1>>, rotation |-> <<0, 1, 0, 0>>, scale |-> <<2, 1, 1>>]}

\* the skeletons: every parent_index is -1 or an index into the bone list
Skeletons ==
    UNION {[1..n -> {[parent_index |-> p, translation |-> l.translation,
                      rotation |-> l.rotation, scale |-> l.scale] :
                        p \in -1..(n - 1), l \in BoneLocals}] : n \in 1..MaxSkelBones}

\* the rotation matrix of a unit quaternion
quaternion_matrix(q) ==
    LET w == q[1]
        x == q[2]
        y == q[3]
        z == q[4]
    IN  <<<<1 - 2 * (y * y + z * z), 2 * (x * y - z * w), 2 * (x * z + y * w)>>,
          <<2 * (x * y + z * w), 1 - 2 * (x * x + z * z), 2 * (y * z - x * w)>>,
          <<2 * (x * z - y * w), 2 * (y * z + x * w), 1 - 2 * (x * x + y * y)>>>>

\* Matrix.LocRotScale(translation, rotation, scale)
get_bone_transforms(bone) ==
    LET r == quaternion_matrix(bone.rotation)
    IN  [i \in 1..4 |-> [j \in 1..4 |->
            IF i = 4 THEN (IF j = 4 THEN I(1) ELSE I(0))
            ELSE IF j = 4 THEN I(bone.translation[i])
            ELSE I(r[i][j] * bone.scale[j])]]

\* reshape_mat_3x4: the first three rows
reshape_mat_3x4(mat) == [i \in 1..3 |-> mat[i]]

\* Matrix @ Matrix for a left matrix of three or four rows
MatMulRows(a, b) ==
    [i \in 1..Len(a) |-> [j \in 1..4 |->
        RAdd(RAdd(RMul(a[i][1], b[1][j]), RMul(a[i][2], b[2][j])),
             RAdd(RMul(a[i][3], b[3][j]), RMul(a[i][4], b[4][j])))]]

\* the transform of a bone with a parent, the factors swapped
bone_transform_local_first(parent_transforms, transforms) ==
    MatMulRows(reshape_mat_3x4(transforms),
               Append(parent_transforms, <<I(0), I(0), I(0), I(1)>>))

\* parent_transforms @ transforms
bone_transform(parent_transforms, transforms) == MatMulRows(parent_transforms, transforms)

\* the loop over the bones from index i on; err names the exception that
\* ends it early
RECURSIVE bone_transforms_loop(_, _, _)
bone_transforms_loop(bones, i, bones_transforms) ==
    IF i = Len(bones) THEN [err |-> "", bones_transforms |-> bones_transforms]
    ELSE LET bone == bones[i + 1]
             transforms == get_bone_transforms(bone)
         IN  IF bone.parent_index = -1
             THEN bone_transforms_loop(bones, i + 1,
                      Append(bones_transforms, reshape_mat_3x4(transforms)))
             ELSE IF bone.parent_index >= Len(bones_transforms)
             THEN [err |-> "IndexError", bones_transforms |-> bones_transforms]
             ELSE bone_transforms_loop(bones, i + 1,
                      Append(bones_transforms,
                             reshape_mat_3x4(bone_transform(
                                 bones_transforms[bone.parent_index + 1], transforms))))

CreateBoneTransformsXml ==
    /\ pc = "bone_transforms"
    /\ \E r \in {bone_transforms_loop(skel.bones, 0, skel.bones_transforms)} :
          /\ skel' = [skel EXCEPT !.bones_transforms = r.bones_transforms]
          /\ pc' = IF r.err = "" THEN "skel_done" ELSE "error"
          /\ err' = r.err
    /\ UNCHANGED <<frag_obj, lod_xml, link_xml, cloth_mesh, cloth_xml, frag_xml, xml, ydd, export, nav, windows>>

InitSkel ==
    /\ pc = "bone_transforms"
    /\ err = ""
    /\ frag_obj = NoFragObj
    /\ lod_xml = NewLod(0)
    /\ link_xml = NoLinks
    /\ cloth_mesh = NoClothMesh
    /\ cloth_xml = NoClothXml
    /\ frag_xml = NoFragXml
    /\ xml = NoXml
    /\ ydd = NoYdd
    /\ export = NoExport
    /\ nav = NoNav
    /\ windows = NoWindows
    /\ \E bones \in Skeletons : skel = [NoSkel EXCEPT !.bones = bones]

NextSkel == CreateBoneTransformsXml

SpecSkel == InitSkel /\ [][NextSkel]_vars

(* -------------------- calculate_child_drawable_matrices ----------------- *)
\* a bone tag that no bone of the skeleton has
UnknownBoneTag == 77

\* the armature of the fragments whose physics children are given: two
\* bones, the second with or without a joint
RefFragObjs ==
    {[NoFragObj EXCEPT
        !.bones = <<[parent_index |-> -1, use_physics |-> TRUE, tag |-> BoneTag(0),
                     flags |-> {}],
                    [parent_index |-> 0, use_physics |-> TRUE, tag |-> BoneTag(1),
                     flags |-> fl]>>,
        !.rotation_limits = {BoneTag(1)}] : fl \in {{}, {"LimitRotation"}}}

\* the skeleton of the two bones with its bone transforms
RefSkel ==
    LET bones == <<[parent_index |-> -1, translation |-> <<1, 0, 0>>,
                    rotation |-> <<1, 0, 0, 0>>, scale |-> <<1, 1, 1>>],
                   [parent_index |-> 0, translation |-> <<0, 0, 1>>,
                    rotation |-> <<0, 1, 0, 0>>, scale |-> <<2, 1, 1>>]>>
    IN  [bones |-> bones,
         bones_transforms |-> bone_transforms_loop(bones, 0, <<>>).bones_transforms]

\* the physics LODs given: one or two groups, up to two children whose bone
\* tag is the tag of a bone or of none
RefLods ==
  UNION {
    {[NewLod(Len(cs)) EXCEPT
        !.groups = [g \in 1..n |-> [name |-> g - 1,
                                    parent_index |-> IF g = 1 THEN NoParent ELSE 0,
                                    mass |-> 0]],
        !.children = [i \in 1..Len(cs) |->
                        [group_index |-> cs[i][1], pristine_mass |-> 1, damaged_mass |-> 1,
                         bone_tag |-> cs[i][2],
                         inertia_tensor |-> get_child_inertia([k \in 1..Len(cs) |-> k], 1, i - 1),
                         col_obj |-> i, matrix |-> <<>>]]] :
        cs \in SeqsUpTo((0..(n - 1)) \X {BoneTag(0), BoneTag(1), UnknownBoneTag}, 2)} :
    n \in 1..2}

\* Matrix.inverted() of a 4x4 matrix whose last row is 0 0 0 1 and whose
\* upper 3x3 part has a determinant other than 0
Inverted(m) ==
    LET nxt(k) == (k % 3) + 1
        cof(i, j) == RSub(RMul(m[nxt(i)][nxt(j)], m[nxt(nxt(i))][nxt(nxt(j))]),
                          RMul(m[nxt(i)][nxt(nxt(j))], m[nxt(nxt(i))][nxt(j)]))
        det == RAdd(RAdd(RMul(m[1][1], cof(1, 1)), RMul(m[1][2], cof(1, 2))),
                    RMul(m[1][3], cof(1, 3)))
        inv == [i \in 1..3 |-> [j \in 1..3 |-> RDiv(cof(j, i), det)]]
    IN  [i \in 1..4 |-> [j \in 1..4 |->
            IF i = 4 THEN (IF j = 4 THEN I(1) ELSE I(0))
            ELSE IF j = 4
            THEN RNeg(RAdd(RAdd(RMul(inv[i][1], m[1][4]), RMul(inv[i][2], m[2][4])),
                           RMul(inv[i][3], m[3][4])))
            ELSE inv[i][j]]]

\* Matrix.to_4x4() of a 3x4 matrix
to_4x4(mat) == Append(mat, <<I(0), I(0), I(0), I(1)>>)

\* reshape_mat_4x3: the first three columns
reshape_mat_4x3(mat) == [i \in 1..4 |-> [j \in 1..3 |-> mat[i][j]]]

\* the lookup giving the transform of the first bone for a tag that is no key
bone_transform_by_tag_or_first(bones, bone_transforms, tag) ==
    LET ids == {i \in 1..Len(bones) : bones[i].tag = tag}
    IN  [found |-> TRUE,
         value |-> bone_transforms[IF ids = {} THEN 1 ELSE SetMax(ids)]]

\* bone_transform_by_tag[tag]: the transform of the last bone with the tag;
\* found is FALSE for a tag that is no key
bone_transform_by_tag(bones, bone_transforms, tag) ==
    LET ids == {i \in 1..Len(bones) : bones[i].tag = tag}
    IN  [found |-> ids # {},
         value |-> IF ids = {} THEN <<>> ELSE bone_transforms[SetMax(ids)]]

\* child.drawable.matrix of the child on bound b with the bone transform
child_drawable_matrix(b, bone_mat) ==
    reshape_mat_4x3(MatMul(IMat(CompositeTransform(b)),
                           Transposed(Inverted(to_4x4(bone_mat)))))

\* calculate_child_drawable_matrices: the children before the first one
\* whose bone tag is no key get their matrix, that one raises KeyError
CalculateChildDrawableMatrices ==
    /\ pc = "child_matrices"
    /\ \E lookup \in {[i \in 1..Len(lod_xml.children) |->
                          bone_transform_by_tag(frag_obj.bones, skel.bones_transforms,
                                                lod_xml.children[i].bone_tag)]} :
       \E missing \in {{i \in 1..Len(lod_xml.children) : ~lookup[i].found}} :
       \E upto \in {IF missing = {} THEN Len(lod_xml.children) ELSE SetMin(missing) - 1} :
          /\ lod_xml' = [lod_xml EXCEPT !.children =
                 [i \in 1..Len(lod_xml.children) |->
                     IF i <= upto
                     THEN [lod_xml.children[i] EXCEPT
                              !.matrix = child_drawable_matrix(lod_xml.bounds[i], lookup[i].value)]
                     ELSE lod_xml.children[i]]]
          /\ pc' = IF missing = {} THEN "sort" ELSE "error"
          /\ err' = IF missing = {} THEN err ELSE "KeyError"
    /\ UNCHANGED <<frag_obj, link_xml, cloth_mesh, cloth_xml, frag_xml, xml, ydd, export, nav, windows, skel>>

InitRef ==
    /\ pc \in {"child_matrices", "transforms"}
    /\ err = ""
    /\ frag_obj \in RefFragObjs
    /\ lod_xml \in RefLods
    /\ link_xml = NoLinks
    /\ cloth_mesh = NoClothMesh
    /\ cloth_xml = NoClothXml
    /\ frag_xml = NoFragXml
    /\ xml = NoXml
    /\ ydd = NoYdd
    /\ export = NoExport
    /\ nav = NoNav
    /\ windows = NoWindows
    /\ skel = RefSkel

NextRef == CalculateChildDrawableMatrices \/ CalculatePhysicsLodTransforms

SpecRef == InitRef /\ [][NextRef]_vars

(* -------------------------------- export_yft ---------------------------- *)
\* the file path export_yft is given
YftFilepath == <<"a", ".", "y", "f", "t", ".", "x", "m", "l">>

\* str.replace(old, new): every occurrence of old, from the left
RECURSIVE Replace(_, _, _)
Replace(s, old, new) ==
    IF Len(s) < Len(old) THEN s
    ELSE IF SubSeq(s, 1, Len(old)) = old
    THEN new \o Replace(SubSeq(s, Len(old) + 1, Len(s)), old, new)
    ELSE <<Head(s)>> \o Replace(Tail(s), old, new)

\* filepath.replace(".yft.xml", "_hi.yft.xml")
hi_filepath(filepath) ==
    Replace(filepath, <<".", "y", "f", "t", ".", "x", "m", "l">>,
            <<"_", "h", "i", ".", "y", "f", "t", ".", "x", "m", "l">>)

\* the fragment objects exported: an armature or not, with or without a
\* drawable and a very high LOD on its models, and up to MaxCols collisions
\* whose child meshes have a very high LOD or not
ExportObjs ==
    {[is_armature |-> a, has_drawable |-> d, model_very_high |-> v, child_very_high |-> c] :
        a \in BOOLEAN, d \in BOOLEAN, v \in BOOLEAN, c \in SeqsUpTo(BOOLEAN, MaxCols - 1)}

Exports ==
    {[NoExport EXCEPT !.export_non_hi = n, !.export_hi = h, !.filepath = YftFilepath,
                      !.obj = o] :
        n \in BOOLEAN, h \in BOOLEAN, o \in ExportObjs}

\* has_hi_lods: a drawable model or a physics child mesh under the object
\* has a very high LOD mesh
has_hi_lods(obj) ==
    \/ obj.has_drawable /\ obj.model_very_high
    \/ \E k \in 1..Len(obj.child_very_high) : obj.child_very_high[k]

\* write_xml: the document of a fragment as it is when it is written
fragment_document(frag, heap) ==
    [drawable |-> frag.drawable,
     children |-> [k \in 1..Len(frag.physics.children) |-> heap[frag.physics.children[k]]],
     vehicle_glass_windows |-> frag.vehicle_glass_windows]

\* export_yft, create_fragment_xml: no fragment for an object that is no
\* armature or has no drawable; physics only with collisions
ExportCreateFragmentXml ==
    /\ pc = "export_yft"
    /\ IF ~export.obj.is_armature \/ ~export.obj.has_drawable
       THEN /\ export' = [export EXCEPT !.returned = "False",
                                        !.logged = "Failed to create Fragment XML"]
            /\ pc' = "export_done"
       ELSE /\ export' = [export EXCEPT
                !.frag_xml = [present |-> TRUE, drawable |-> "drawable",
                              physics |-> [present |-> export.obj.child_very_high # <<>>,
                                           children |-> [k \in 1..Len(export.obj.child_very_high) |-> k]],
                              vehicle_glass_windows |-> "windows"],
                !.heap = [k \in 1..Len(export.obj.child_very_high) |-> "high med low"]]
            /\ pc' = "export_non_hi"
    /\ UNCHANGED <<err, frag_obj, lod_xml, link_xml, cloth_mesh, cloth_xml, frag_xml, xml, ydd, nav, windows, skel>>

\* export_yft: the non-hi file
ExportWriteNonHi ==
    /\ pc = "export_non_hi"
    /\ export' = [export EXCEPT !.files =
                     IF export.export_non_hi
                     THEN Append(@, [path |-> export.filepath,
                                     content |-> fragment_document(export.frag_xml, export.heap)])
                     ELSE @]
    /\ pc' = "export_hi"
    /\ UNCHANGED <<err, frag_obj, lod_xml, link_xml, cloth_mesh, cloth_xml, frag_xml, xml, ydd, nav, windows, skel>>

\* the branch behind the non-hi file with a True for a hi-only export without
\* very high LODs
hi_branch_never_fails(export_non_hi, export_hi, hi_lods) ==
    IF export_hi /\ hi_lods THEN "create_hi_frag_xml" ELSE "True"

\* export_yft: the branch behind the non-hi file
hi_branch(export_non_hi, export_hi, hi_lods) ==
    IF export_hi /\ hi_lods THEN "create_hi_frag_xml"
    ELSE IF export_hi /\ ~export_non_hi THEN "False"
    ELSE "True"

ExportHi ==
    /\ pc = "export_hi"
    /\ \E branch \in {hi_branch(export.export_non_hi, export.export_hi,
                                has_hi_lods(export.obj))} :
          IF branch = "create_hi_frag_xml"
          THEN pc' = "create_hi_frag_xml" /\ UNCHANGED export
          ELSE /\ pc' = "export_done"
               /\ export' = [export EXCEPT
                      !.returned = branch,
                      !.logged = IF branch = "False" THEN "Nothing was exported" ELSE @]
    /\ UNCHANGED <<err, frag_obj, lod_xml, link_xml, cloth_mesh, cloth_xml, frag_xml, xml, ydd, nav, windows, skel>>

\* the physics of the hi fragment as a copy with children of its own
hi_physics_deep_copy(physics, heap) ==
    [physics |-> [physics EXCEPT !.children =
                     [k \in 1..Len(@) |-> Len(heap) + k]],
     heap |-> heap \o [k \in 1..Len(physics.children) |-> heap[physics.children[k]]]]

\* hi_frag_xml.__dict__ = frag_xml.__dict__.copy(): the physics of the hi
\* fragment is the physics object of the fragment
hi_physics(physics, heap) == [physics |-> physics, heap |-> heap]

\* create_hi_frag_xml: the drawables of the children of the hi fragment are
\* cleared and made again from the very high LOD of their meshes
CreateHiFragXml ==
    /\ pc = "create_hi_frag_xml"
    /\ \E hi \in {hi_physics(export.frag_xml.physics, export.heap)} :
          export' = [export EXCEPT
              !.hi_frag_xml = [present |-> TRUE, drawable |-> "hi drawable",
                               physics |-> hi.physics,
                               vehicle_glass_windows |-> "None"],
              !.heap = [id \in 1..Len(hi.heap) |->
                          IF \E k \in 1..Len(hi.physics.children) : hi.physics.children[k] = id
                          THEN LET k == CHOOSE k \in 1..Len(hi.physics.children) :
                                            hi.physics.children[k] = id
                               IN  IF export.obj.child_very_high[k] THEN "very high" ELSE ""
                          ELSE hi.heap[id]]]
    /\ pc' = "export_write_hi"
    /\ UNCHANGED <<err, frag_obj, lod_xml, link_xml, cloth_mesh, cloth_xml, frag_xml, xml, ydd, nav, windows, skel>>

\* export_yft: the hi file
ExportWriteHi ==
    /\ pc = "export_write_hi"
    /\ export' = [export EXCEPT
                     !.files = Append(@, [path |-> hi_filepath(export.filepath),
                                          content |-> fragment_document(export.hi_frag_xml,
                                                                        export.heap)]),
                     !.returned = "True"]
    /\ pc' = "export_done"
    /\ UNCHANGED <<err, frag_obj, lod_xml, link_xml, cloth_mesh, cloth_xml, frag_xml, xml, ydd, nav, windows, skel>>

InitExport ==
    /\ pc = "export_yft"
    /\ err = ""
    /\ frag_obj = NoFragObj
    /\ lod_xml = NewLod(0)
    /\ link_xml = NoLinks
    /\ cloth_mesh = NoClothMesh
    /\ cloth_xml = NoClothXml
    /\ frag_xml = NoFragXml
    /\ xml = NoXml
    /\ ydd = NoYdd
    /\ nav = NoNav
    /\ windows = NoWindows
    /\ skel = NoSkel
    /\ export \in Exports

NextExport ==
    \/ ExportCreateFragmentXml
    \/ ExportWriteNonHi
    \/ ExportHi
    \/ CreateHiFragXml
    \/ ExportWriteHi

SpecExport == InitExport /\ [][NextExport]_vars

(* --------------------------- navmesh polygons --------------------------- *)
MaxPolys == 2

\* Python's &, | on non-negative ints, bit by bit
RECURSIVE BitAnd(_, _)
BitAnd(a, b) ==
    IF a = 0 \/ b = 0 THEN 0
    ELSE (a % 2) * (b % 2) + 2 * BitAnd(a \div 2, b \div 2)

RECURSIVE BitOr(_, _)
BitOr(a, b) ==
    IF a = 0 THEN b
    ELSE IF b = 0 THEN a
    ELSE (IF a % 2 = 1 \/ b % 2 = 1 THEN 1 ELSE 0) + 2 * BitOr(a \div 2, b \div 2)

\* Python's <<, >> on non-negative ints
RECURSIVE Shl(_, _)
Shl(a, n) == IF n = 0 THEN a ELSE Shl(2 * a, n - 1)

RECURSIVE Shr(_, _)
Shr(a, n) == IF n = 0 THEN a ELSE Shr(a \div 2, n - 1)

\* NavPolyAttributes: the value whose fields are given by the bits of four
\* numbers (b0 below 64, b1 below 128, b2 and b3 below 256)
NavPolyAttributes(b0, b1, b2, b3) ==
    [is_small |-> b0 % 2 = 1,
     is_large |-> (b0 \div 2) % 2 = 1,
     is_pavement |-> (b0 \div 4) % 2 = 1,
     is_in_shelter |-> (b0 \div 8) % 2 = 1,
     is_too_steep_to_walk_on |-> (b0 \div 16) % 2 = 1,
     is_water |-> (b0 \div 32) % 2 = 1,
     is_near_car_node |-> b1 % 2 = 1,
     is_interior |-> (b1 \div 2) % 2 = 1,
     is_isolated |-> (b1 \div 4) % 2 = 1,
     is_network_spawn_candidate |-> b2 % 2 = 1,
     is_road |-> (b2 \div 2) % 2 = 1,
     lies_along_edge |-> (b2 \div 4) % 2 = 1,
     is_train_track |-> (b2 \div 8) % 2 = 1,
     is_shallow_water |-> (b2 \div 16) % 2 = 1,
     cover_directions |-> [i \in 1..8 |-> (b3 \div (2 ^ (i - 1))) % 2 = 1],
     audio_reverb_size |-> (b1 \div 8) % 4,
     audio_reverb_wet |-> (b1 \div 32) % 4,
     ped_density |-> (b2 \div 32) % 8]

\* the attribute values written: every combination of the fields of one
\* flags byte, with the fields of the other bytes all off or all at their
\* highest value
NavAttrValues ==
    UNION { {NavPolyAttributes(b0, on * 127, on * 255, on * 255) : b0 \in 0..63}
            \cup {NavPolyAttributes(on * 63, b1, on * 255, on * 255) : b1 \in 0..127}
            \cup {NavPolyAttributes(on * 63, on * 127, b2, on * 255) : b2 \in 0..255}
            \cup {NavPolyAttributes(on * 63, on * 127, on * 255, b3) : b3 \in 0..255} :
          on \in {0, 1} }

BoolAttrs ==
    {"is_small", "is_large", "is_pavement", "is_in_shelter", "is_too_steep_to_walk_on",
     "is_water", "is_near_car_node", "is_interior", "is_isolated",
     "is_network_spawn_candidate", "is_road", "lies_along_edge", "is_train_track",
     "is_shallow_water"}

\* IntAttr(name, attr_name, min, max): the highest value of an int attribute
IntAttrMax ==
    [audio_reverb_size |-> 3, audio_reverb_wet |-> 3, ped_density |-> 7]

IntAttrs == DOMAIN IntAttrMax

AttrNames == BoolAttrs \cup IntAttrs \cup {"cover_directions"}

\* the values a property of the accessor can be set to
SetterValues(attr_name) ==
    IF attr_name \in BoolAttrs
    THEN {[bool |-> b, int |-> 0, vector |-> <<>>] : b \in BOOLEAN}
    ELSE IF attr_name \in IntAttrs
    THEN {[bool |-> FALSE, int |-> n, vector |-> <<>>] : n \in 0..IntAttrMax[attr_name]}
    ELSE {[bool |-> FALSE, int |-> 0, vector |-> [i \in 1..8 |-> (i % 2 = 1) = odd]] :
             odd \in BOOLEAN}

\* setattr(attrs, attr_name, value)
setattr(attrs, attr_name, value) ==
    [attrs EXCEPT ![attr_name] =
        IF attr_name \in BoolAttrs THEN value.bool
        ELSE IF attr_name \in IntAttrs THEN value.int
        ELSE value.vector]

\* mesh_get_navmesh_poly_attributes; a missing attribute reads as 0
mesh_get_navmesh_poly_attributes(mesh, poly_idx) ==
    LET data0 == IF mesh.data0_present THEN mesh.polys[poly_idx + 1].data0 ELSE 0
        data1 == IF mesh.data1_present THEN mesh.polys[poly_idx + 1].data1 ELSE 0
        flags0 == BitAnd(data0, 255)
        flags1 == BitAnd(Shr(data0, 8), 255)
        flags2 == BitAnd(data1, 255)
        flags3 == BitAnd(Shr(data1, 8), 255)
    IN  [is_small |-> BitAnd(flags0, 1) # 0,
         is_large |-> BitAnd(flags0, 2) # 0,
         is_pavement |-> BitAnd(flags0, 4) # 0,
         is_in_shelter |-> BitAnd(flags0, 8) # 0,
         is_too_steep_to_walk_on |-> BitAnd(flags0, 64) # 0,
         is_water |-> BitAnd(flags0, 128) # 0,
         audio_reverb_size |-> BitAnd(flags1, 3),
         audio_reverb_wet |-> BitAnd(Shr(flags1, 2), 3),
         is_near_car_node |-> BitAnd(flags1, 32) # 0,
         is_interior |-> BitAnd(flags1, 64) # 0,
         is_isolated |-> BitAnd(flags1, 128) # 0,
         is_network_spawn_candidate |-> BitAnd(flags2, 1) # 0,
         is_road |-> BitAnd(flags2, 2) # 0,
         lies_along_edge |-> BitAnd(flags2, 4) # 0,
         is_train_track |-> BitAnd(flags2, 8) # 0,
         is_shallow_water |-> BitAnd(flags2, 16) # 0,
         ped_density |-> BitAnd(Shr(flags2, 5), 7),
         cover_directions |-> [i \in 1..8 |-> BitAnd(flags3, Shl(1, i - 1)) # 0]]

flag(condition, bit) == IF condition THEN bit ELSE 0

RECURSIVE cover_flags(_, _, _)
cover_flags(cover_directions, i, flags3) ==
    IF i = 8 THEN flags3
    ELSE cover_flags(cover_directions, i + 1,
                     BitOr(flags3, flag(cover_directions[i + 1], Shl(1, i))))

\* faulty variant: audio_reverb_wet is shifted by one bit only
poly_data0_wet_overlaps(poly_attrs) ==
    LET flags0 == BitOr(BitOr(BitOr(BitOr(BitOr(BitOr(0,
                      flag(poly_attrs.is_small, 1)),
                      flag(poly_attrs.is_large, 2)),
                      flag(poly_attrs.is_pavement, 4)),
                      flag(poly_attrs.is_in_shelter, 8)),
                      flag(poly_attrs.is_too_steep_to_walk_on, 64)),
                      flag(poly_attrs.is_water, 128))
        flags1 == BitOr(BitOr(BitOr(BitOr(BitAnd(poly_attrs.audio_reverb_size, 3),
                      Shl(BitAnd(poly_attrs.audio_reverb_wet, 3), 1)),
                      flag(poly_attrs.is_near_car_node, 32)),
                      flag(poly_attrs.is_interior, 64)),
                      flag(poly_attrs.is_isolated, 128))
    IN  BitOr(flags0, Shl(flags1, 8))

\* mesh_set_navmesh_poly_attributes: data0 = flags0 | (flags1 << 8)
poly_data0(poly_attrs) ==
    LET flags0 == BitOr(BitOr(BitOr(BitOr(BitOr(BitOr(0,
                      flag(poly_attrs.is_small, 1)),
                      flag(poly_attrs.is_large, 2)),
                      flag(poly_attrs.is_pavement, 4)),
                      flag(poly_attrs.is_in_shelter, 8)),
                      flag(poly_attrs.is_too_steep_to_walk_on, 64)),
                      flag(poly_attrs.is_water, 128))
        flags1 == BitOr(BitOr(BitOr(BitOr(BitAnd(poly_attrs.audio_reverb_size, 3),
                      Shl(BitAnd(poly_attrs.audio_reverb_wet, 3), 2)),
                      flag(poly_attrs.is_near_car_node, 32)),
                      flag(poly_attrs.is_interior, 64)),
                      flag(poly_attrs.is_isolated, 128))
    IN  BitOr(flags0, Shl(flags1, 8))

\* mesh_set_navmesh_poly_attributes: data1 = flags2 | (flags3 << 8)
poly_data1(poly_attrs) ==
    LET flags2 == BitOr(BitOr(BitOr(BitOr(BitOr(BitOr(0,
                      flag(poly_attrs.is_network_spawn_candidate, 1)),
                      flag(poly_attrs.is_road, 2)),
                      flag(poly_attrs.lies_along_edge, 4)),
                      flag(poly_attrs.is_train_track, 8)),
                      flag(poly_attrs.is_shallow_water, 16)),
                      Shl(BitAnd(poly_attrs.ped_density, 7), 5))
        flags3 == cover_flags(poly_attrs.cover_directions, 0, 0)
    IN  BitOr(flags2, Shl(flags3, 8))

\* mesh_set_navmesh_poly_attributes: the mesh with the two words of the
\* polygon written; a word whose attribute is missing is not written
mesh_set_navmesh_poly_attributes(mesh, poly_idx, poly_attrs) ==
    [mesh EXCEPT !.polys[poly_idx + 1] =
        [@ EXCEPT !.data0 = IF mesh.data0_present THEN poly_data0(poly_attrs) ELSE @,
                  !.data1 = IF mesh.data1_present THEN poly_data1(poly_attrs) ELSE @]]

\* NavMeshPolyAccessor.selected_polys: the selected polygons but the active
selected_polys(mesh) ==
    SelectSeq(Range0(Len(mesh.polys)),
              LAMBDA i : i # mesh.active /\ mesh.polys[i + 1].select)

\* _attr_setter: the loop over the selected polygons
RECURSIVE set_on_polys(_, _, _, _)
set_on_polys(mesh, polys, attr_name, value) ==
    IF polys = <<>> THEN mesh
    ELSE set_on_polys(
             mesh_set_navmesh_poly_attributes(mesh, Head(polys),
                 setattr(mesh_get_navmesh_poly_attributes(mesh, Head(polys)), attr_name, value)),
             Tail(polys), attr_name, value)

\* the stored words a mesh comes with: nothing set, or every bit of the two
\* bytes set, the unused ones too
PolyWords == {[data0 |-> w, data1 |-> w] : w \in {0, 65535}}

NavMeshes ==
    UNION { { [NoNav EXCEPT !.data0_present = p0, !.data1_present = p1,
                            !.polys = [i \in 1..n |->
                                          [data0 |-> IF p0 THEN w[i].data0 ELSE 0,
                                           data1 |-> IF p1 THEN w[i].data1 ELSE 0,
                                           select |-> s[i]]],
                            !.active = a,
                            !.poly_attrs = NavPolyAttributes(0, 0, 0, 0)] :
                p0 \in BOOLEAN, p1 \in BOOLEAN, w \in [1..n -> PolyWords],
                s \in [1..n -> BOOLEAN], a \in 0..(n - 1) } :
            n \in 1..MaxPolys }

\* mesh_set_navmesh_poly_attributes on a polygon of the mesh
MeshSetNavmeshPolyAttributes ==
    /\ pc = "navmesh"
    /\ \E poly_idx \in 0..(Len(nav.polys) - 1), poly_attrs \in NavAttrValues :
          nav' = [mesh_set_navmesh_poly_attributes(nav, poly_idx, poly_attrs)
                     EXCEPT !.op = "set", !.poly_idx = poly_idx, !.poly_attrs = poly_attrs]
    /\ pc' = "navmesh_done"
    /\ UNCHANGED <<err, frag_obj, lod_xml, link_xml, cloth_mesh, cloth_xml, frag_xml, xml, ydd, export, windows, skel>>

\* _attr_setter(attr_name): a property of the accessor is set to a value
AttrSetter ==
    /\ pc = "navmesh"
    /\ \E attr_name \in AttrNames :
          \E value \in SetterValues(attr_name) :
              nav' = [set_on_polys(nav, Append(selected_polys(nav), nav.active),
                                   attr_name, value)
                         EXCEPT !.op = "setter", !.attr_name = attr_name, !.value = value]
    /\ pc' = "navmesh_done"
    /\ UNCHANGED <<err, frag_obj, lod_xml, link_xml, cloth_mesh, cloth_xml, frag_xml, xml, ydd, export, windows, skel>>

InitNav ==
    /\ pc = "navmesh"
    /\ err = ""
    /\ frag_obj = NoFragObj
    /\ lod_xml = NewLod(0)
    /\ link_xml = NoLinks
    /\ cloth_mesh = NoClothMesh
    /\ cloth_xml = NoClothXml
    /\ frag_xml = NoFragXml
    /\ xml = NoXml
    /\ ydd = NoYdd
    /\ export = NoExport
    /\ windows = NoWindows
    /\ skel = NoSkel
    /\ nav \in NavMeshes

NextNav ==
    \/ MeshSetNavmeshPolyAttributes
    \/ AttrSetter

SpecNav == InitNav /\ [][NextNav]_vars

(* --------------------------- XML properties ----------------------------- *)
\* C16: from_xml(to_xml(list)) is the list, for every length; the text
\* holds 24 values on every line but the last, the values of a line are
\* separated by one space, and there is a newline after every 24th value.
C16_IndexDataRoundTrip ==
    xml.kind = "IndexData" =>
        /\ pc # "error"
        /\ pc = "xml_done" => xml.parsed = xml.value
        /\ pc \in {"index_from_xml", "xml_done"} =>
              LET n == Len(xml.value)
                  lines == Split(xml.element.text, <<"\n">>)
              IN  /\ Len(lines) = (n \div 24) + 1
                  /\ \A k \in 1..Len(lines) :
                        LET count == IF k <= n \div 24 THEN 24 ELSE n % 24
                        IN  /\ lines[k] = <<>> \/ Head(lines[k]) # " "
                            /\ IF count = 0 THEN lines[k] = <<>>
                               ELSE Split(Strip(lines[k]), <<" ">>)
                                      = [i \in 1..count |-> PyStr(xml.value[24 * (k - 1) + i])]

\* C16 witness: 49 indices from 95 in steps of 7 come back unchanged from a
\* text of three lines, the second line starting with the 25th value 263.
C16_Witness ==
    /\ pc = "xml_done"
    /\ xml.kind = "IndexData"
    /\ xml.value = [i \in 1..49 |-> 95 + 7 * (i - 1)]
    /\ xml.parsed = xml.value
    /\ Len(Split(xml.element.text, <<"\n">>)) = 3
    /\ SubSeq(Split(xml.element.text, <<"\n">>)[2], 1, 4) = <<"2", "6", "3", " ">>


\* the lengths of the maximal runs of spaces of a line, in order
SpaceRuns(line) ==
    LET starts == Sorted({i \in 1..Len(line) :
                            line[i] = " " /\ (i = 1 \/ line[i - 1] # " ")})
        stop(i) == SetMin({j \in i..Len(line) : j = Len(line) \/ line[j + 1] # " "})
    IN  [k \in 1..Len(starts) |-> stop(starts[k]) - starts[k] + 1]

\* the runs of spaces the row is to have: one space between the values of a
\* group, three spaces behind every group
ExpectedRuns(vertex) ==
    Flatten([g \in 1..Len(vertex) |-> [j \in 1..Len(vertex[g]) |->
                IF j < Len(vertex[g]) THEN 1 ELSE 3]])

\* C18: from_xml(to_xml(table)) is the table, for every non-empty table of
\* rows of non-empty groups; every row is one line, its groups are three
\* spaces and the values of a group one space apart; the empty table gives
\* no element.
C18_VertexDataRoundTrip ==
    xml.kind = "VertexData" =>
        /\ pc # "error"
        /\ (pc = "xml_done" /\ xml.value # <<>>) => xml.parsed = xml.value
        /\ (pc = "xml_done" /\ xml.value = <<>>) => xml.element = "None"
        /\ pc = "vertex_from_xml" =>
              LET lines == Split(xml.element.text, <<"\n">>)
              IN  /\ Len(lines) = Len(xml.value) + 1
                  /\ lines[Len(lines)] = <<>>
                  /\ \A r \in 1..Len(xml.value) :
                        /\ SpaceRuns(lines[r]) = ExpectedRuns(xml.value[r])
                        /\ SplitWhitespace(lines[r])
                              = Flatten([g \in 1..Len(xml.value[r]) |->
                                    [j \in 1..Len(xml.value[r][g]) |->
                                        PyStrValue(xml.value[r][g][j])]])

\* C18 witness: a table of a three-group row and a one-group row came back
\* unchanged, floats as floats and ints as ints.
C18_Witness ==
    /\ pc = "xml_done"
    /\ xml.kind = "VertexData"
    /\ xml.value = <<VertexRow(<<3, 3, 2>>, 0), VertexRow(<<1>>, 1)>>
    /\ xml.parsed = xml.value
    /\ xml.parsed[1][1] = <<IntV(0), FloatV(<<-5, 2>>), IntV(-1)>>


\* the rows written in a Data child: one per line
RowsOf(child) == IF child.present THEN Len(Split(child.text, <<"\n">>)) - 1 ELSE 0

\* the number of groups written on a line: every group is followed by three
\* spaces, inside a group there is one space
GroupsOf(line) == Cardinality({i \in 3..Len(line) :
                        line[i] = " " /\ line[i - 1] = " " /\ line[i - 2] = " "})

\* do all rows of the child have n groups
RowsAgree(child, n) ==
    \A r \in 1..RowsOf(child) : GroupsOf(Split(child.text, <<"\n">>)[r]) = n

\* C17: VertexBuffer.from_xml fails, returning no buffer, when a row of Data
\* or Data2 has a number of groups other than the number of Layout channels;
\* otherwise every row becomes a record whose fields are the lower-cased
\* channel names in Layout order, holding the groups of the row.
C17_VertexBufferLayout ==
    (xml.kind = "VertexBuffer" /\ pc # "buffer_from_xml") =>
        LET e == xml.element
            n == Len(e.layout)
            names == <<<<"p", "o", "s", "i", "t", "i", "o", "n">>,
                       <<"n", "o", "r", "m", "a", "l">>,
                       <<"c", "o", "l", "o", "u", "r", "0">>>>
        IN  IF RowsAgree(e.data, n) /\ RowsAgree(e.data2, n)
            THEN /\ pc = "xml_done"
                 /\ Len(xml.parsed.data) = RowsOf(e.data)
                 /\ Len(xml.parsed.data2) = RowsOf(e.data2)
                 /\ \A rows \in {xml.parsed.data, xml.parsed.data2} :
                      \A r \in 1..Len(rows) :
                         /\ rows[r].fields = SubSeq(names, 1, n)
                         /\ Len(rows[r].values) = n
                 /\ \A r \in 1..Len(xml.parsed.data) :
                       xml.parsed.data[r].values
                          = vertex_data_from_text(e.data.text)[r]
            ELSE /\ pc = "error"
                 /\ err = "TypeError"
                 /\ xml = [NoXml EXCEPT !.kind = "VertexBuffer", !.element = e]

\* C17 witness (failure): Layout [Position, Normal] with a row of 3 groups.
C17_Witness ==
    /\ pc = "error"
    /\ xml.kind = "VertexBuffer"
    /\ xml.element.layout = <<Position, Normal>>
    /\ xml.element.data.text = vertex_data_text(<<VertexRow(<<3, 3, 2>>, 0)>>)
    /\ ~xml.element.data2.present


\* the positions of the parameter nodes with a known type
KnownTyped(element) ==
    {i \in 1..Len(element.children) :
        /\ element.children[i].has_type
        /\ element.children[i].type \in {"Texture", "Vector", "Array"}}

\* C19: ParametersListProperty.from_xml gives one item of the matching
\* variant for every parameter node of type Texture, Vector or Array, in
\* document order, and nothing for a node of another type or without a type;
\* it raises no error.
C19_ParametersByType ==
    xml.kind = "Parameters" =>
        /\ pc # "error"
        /\ pc = "xml_done" =>
              LET known == Sorted(KnownTyped(xml.element))
              IN  /\ Len(xml.parsed) = Len(known)
                  /\ \A k \in 1..Len(known) :
                        /\ xml.parsed[k].variant = xml.element.children[known[k]].type
                        /\ xml.parsed[k].name = xml.element.children[known[k]].name

\* C19 witness: an Array, a node of an unknown type and a Texture give the
\* Array item and then the Texture item.
C19_Witness ==
    /\ pc = "xml_done"
    /\ xml.kind = "Parameters"
    /\ Len(xml.element.children) = 3
    /\ xml.element.children[1].type = "Array"
    /\ xml.element.children[2].type = "Float"
    /\ xml.element.children[3].type = "Texture"
    /\ xml.parsed = <<[variant |-> "Array", name |-> <<"1">>],
                      [variant |-> "Texture", name |-> <<"3">>]>>


\* the Bounds elements directly under the Drawable element that was read
BoundElementsOf(element) ==
    {i \in 1..Len(element.children) : element.children[i].tag = "Bounds"}

\* C20: after Drawable.from_xml the bound is absent or one bound of one of the
\* eight variants, the one named by the type attribute of the drawable's
\* Bounds element; a type that is none of the eight leaves it absent; a bound
\* that is present has the tag "Bounds" after parsing and in what to_xml
\* writes.
C20_BoundByType ==
    (xml.kind = "Drawable" /\ pc \in {"drawable_to_xml", "xml_done"}) =>
        LET bound == xml.parsed.bound
            at == BoundElementsOf(xml.value)
        IN  /\ at = {} => ~bound.present
            /\ \A i \in at :
                  IF xml.value.children[i].type \in BoundTypes
                  THEN bound.present /\ bound.variant = xml.value.children[i].type
                  ELSE ~bound.present
            /\ bound.present => bound.variant \in BoundTypes /\ bound.tag_name = "Bounds"
            /\ pc = "xml_done" =>
                  IF bound.present
                  THEN Len(xml.written) = 1 /\ xml.written[1].tag = "Bounds"
                  ELSE xml.written = <<>>


(* ------------------------------ import_ydd ------------------------------ *)
\* the bones a drawable of the dictionary ends up with
SkeletonOf(k) ==
    IF ydd.members[k].bones # "" THEN ydd.members[k].bones ELSE ydd.used[k].external_bones

\* is a fragment file in the directory of the dictionary
HasExternalSkeleton == \E i \in 1..Len(ydd.directory) : ydd.directory[i] \in {YftFileS, YftFileT}

\* the bones of the first fragment file of the listing
FirstExternalBones ==
    YftBones(ydd.directory[SetMin({i \in 1..Len(ydd.directory) :
                                      ydd.directory[i] \in {YftFileS, YftFileT}})])

IsSkippedWindow(obj) ==
    \/ obj.bone = -1
    \/ ~windows.bones[obj.bone + 1].use_physics
    \/ \A i \in 1..Len(windows.children) :
          windows.children[i].bone_tag # windows.bones[obj.bone + 1].tag
    \/ obj.window_mat = "None"
    \/ \A i \in 1..Len(windows.materials) : windows.materials[i] # obj.window_mat

\* C22: a vehicle window whose bone is missing or has no physics, whose bone
\* tag has no physics child or whose material is missing or not in the
\* drawable gives a warning and is skipped alone; every other window is
\* emitted once, with the index of a physics child of its bone tag as item_id,
\* the windows are in ascending item_id order, and the export goes on.
C22_WindowsSkippedAlone ==
    /\ pc \in {"vehicle_windows", "frag_lights", "windows_done"}
          => (pc # "error" /\ err = "")
    /\ pc \in {"frag_lights", "windows_done"} =>
        LET out == windows.vehicle_glass_windows
        IN  /\ \A k \in 1..Len(windows.objs) :
                  IF IsSkippedWindow(windows.objs[k])
                  THEN /\ \A n \in 1..Len(out) : out[n].obj # k
                       /\ Cardinality({n \in 1..Len(windows.logged) :
                                          windows.logged[n].obj = k}) = 1
                  ELSE /\ Cardinality({n \in 1..Len(out) : out[n].obj = k}) = 1
                       /\ \A n \in 1..Len(windows.logged) : windows.logged[n].obj # k
            /\ \A n \in 1..Len(out) :
                  /\ out[n].item_id \in 0..(Len(windows.children) - 1)
                  /\ windows.children[out[n].item_id + 1].bone_tag
                        = windows.bones[windows.objs[out[n].obj].bone + 1].tag
            /\ \A n \in 1..(Len(out) - 1) : out[n].item_id <= out[n + 1].item_id
    /\ pc = "windows_done" => frag_xml.lights = "lights"

\* C22 witness: the first window sits on the bone of the second child, the
\* second on the bone of the first child: both are emitted, in item_id order.
C22_Witness ==
    /\ pc = "windows_done"
    /\ Len(windows.objs) = 2
    /\ Len(windows.vehicle_glass_windows) = 2
    /\ windows.vehicle_glass_windows[1].obj = 2
    /\ windows.vehicle_glass_windows[1].item_id = 0
    /\ windows.vehicle_glass_windows[2].obj = 1
    /\ windows.vehicle_glass_windows[2].item_id = 1


(* ----------------------- create_bone_transforms_xml --------------------- *)
\* the product of the local matrices along the chain from the root to bone
\* i (1-based), for a skeleton that lists every bone after its parent
RECURSIVE ChainProduct(_)
ChainProduct(i) ==
    IF skel.bones[i].parent_index = -1 THEN get_bone_transforms(skel.bones[i])
    ELSE MatMul(ChainProduct(skel.bones[i].parent_index + 1), get_bone_transforms(skel.bones[i]))

\* is every bone listed after its parent
ParentsFirst == \A i \in 1..Len(skel.bones) : skel.bones[i].parent_index < i - 1

\* there is one transform per bone, and it is the chain product
IsChainOfTransforms ==
    /\ Len(skel.bones_transforms) = Len(skel.bones)
    /\ \A i \in 1..Len(skel.bones) :
          skel.bones_transforms[i] = reshape_mat_3x4(ChainProduct(i))

UnmatchedChildren ==
    {i \in 1..Len(lod_xml.children) :
        \A b \in 1..Len(frag_obj.bones) : frag_obj.bones[b].tag # lod_xml.children[i].bone_tag}

\* the first children of the groups that have a parent group
FirstChildrenOfParented ==
    {i \in 1..Len(lod_xml.children) :
        /\ lod_xml.groups[lod_xml.children[i].group_index + 1].parent_index # NoParent
        /\ \A j \in 1..(i - 1) :
              lod_xml.children[j].group_index # lod_xml.children[i].group_index}

FilesAt(path) == {k \in 1..Len(export.files) : export.files[k].path = path}

\* the children of a fragment's physics as they are now
ChildrenNow(frag) ==
    [k \in 1..Len(frag.physics.children) |-> export.heap[frag.physics.children[k]]]

\* the drawables create_hi_frag_xml leaves on the children
RebuiltChildren ==
    [k \in 1..Len(export.obj.child_very_high) |->
        IF export.obj.child_very_high[k] THEN "very high" ELSE ""]

\* the document of the fragment as create_fragment_xml made it
NonHiDocument ==
    [drawable |-> "drawable",
     children |-> [k \in 1..Len(export.obj.child_very_high) |-> "high med low"],
     vehicle_glass_windows |-> "windows"]

\* C24: with the non-hi and the hi export both enabled the non-hi document is
\* written before create_hi_frag_xml runs; the hi fragment shares the physics
\* children of the non-hi fragment and their drawables are cleared and made
\* again, so that once create_hi_frag_xml has returned the children of the
\* non-hi fragment are the changed ones, while the non-hi file written
\* before still holds the drawables the children had.
C24_HiFragmentSharesChildren ==
    (export.export_non_hi /\ export.export_hi) =>
        /\ pc = "create_hi_frag_xml" =>
              /\ FilesAt(export.filepath) # {}
              /\ FilesAt(hi_filepath(export.filepath)) = {}
              /\ ~export.hi_frag_xml.present
        /\ export.hi_frag_xml.present =>
              /\ export.hi_frag_xml.physics = export.frag_xml.physics
              /\ ChildrenNow(export.frag_xml) = RebuiltChildren
              /\ \A k \in FilesAt(export.filepath) : export.files[k].content = NonHiDocument

C24_Witness ==
    /\ pc = "export_done"
    /\ export.export_non_hi /\ export.export_hi
    /\ export.hi_frag_xml.present
    /\ Len(export.frag_xml.physics.children) = 2
    /\ ChildrenNow(export.frag_xml) = <<"very high", "">>
    /\ \E k \in FilesAt(export.filepath) :
          export.files[k].content.children = <<"high med low", "high med low">>
    /\ \E k \in FilesAt(hi_filepath(export.filepath)) :
          export.files[k].content.children = <<"very high", "">>

(* ------------------------------ claim C25 -------------------------------- *)
PathsWritten == {export.files[k].path : k \in 1..Len(export.files)}

NoFragmentXml == ~export.obj.is_armature \/ ~export.obj.has_drawable

\* C25: export_yft returns False and writes no file when the fragment XML
\* cannot be made (no armature, no drawable) or when only the hi export is
\* selected and the fragment has no very high LODs; otherwise it returns True
\* with the non-hi file written exactly when export_non_hi is set and the
\* '_hi' file exactly when export_hi is set and the fragment has very high
\* LODs; a hi file is never written for a fragment without very high LODs.
C25_ExportOutcome ==
    /\ FilesAt(hi_filepath(export.filepath)) # {} => has_hi_lods(export.obj)
    /\ pc = "export_done" =>
          IF \/ NoFragmentXml
             \/ export.export_hi /\ ~export.export_non_hi /\ ~has_hi_lods(export.obj)
          THEN export.returned = "False" /\ export.files = <<>>
          ELSE /\ export.returned = "True"
               /\ (export.filepath \in PathsWritten) <=> export.export_non_hi
               /\ (hi_filepath(export.filepath) \in PathsWritten)
                      <=> (export.export_hi /\ has_hi_lods(export.obj))
               /\ PathsWritten \subseteq {export.filepath, hi_filepath(export.filepath)}

C25_Witness ==
    /\ pc = "export_done"
    /\ export.export_hi /\ ~export.export_non_hi
    /\ ~NoFragmentXml /\ ~has_hi_lods(export.obj)
    /\ export.returned = "False"
    /\ export.files = <<>>


(* ------------------------------ claim C26 -------------------------------- *)
\* the bones above bone b: its parent, the parent's parent, and so on
AncestorsUpTo[n \in Nat, b \in Int] ==
    IF n = 0 \/ b = -1 \/ frag_obj.bones[b + 1].parent_index = -1 THEN {}
    ELSE {frag_obj.bones[b + 1].parent_index}
            \cup AncestorsUpTo[n - 1, frag_obj.bones[b + 1].parent_index]

Ancestors(b) == AncestorsUpTo[Len(frag_obj.bones), b]

\* the groups of the ancestors of the bone of group g (1-based position)
AncestorGroups(g) ==
    {h \in 1..Len(lod_xml.groups) :
        lod_xml.groups[h].name \in Ancestors(lod_xml.groups[g].name)}

\* an ancestor is nearer than another when the other is above it too
NearestAncestorGroup(g) ==
    CHOOSE h \in AncestorGroups(g) :
        \A o \in AncestorGroups(g) \ {h} :
            lod_xml.groups[o].name \in Ancestors(lod_xml.groups[h].name)

\* C26: the groups come in ascending bone index order; the parent_index of a
\* group is 255 when no ancestor bone has a group, and otherwise the index of
\* the group of the nearest ancestor bone with a group, which is a valid
\* index smaller than the group's own; link formation therefore finds the
\* link of the parent assigned: no group ends with, or is placed through,
\* the marker -1.
C26_GroupOrderAndParents ==
    /\ pc # "groups" =>
          \A g \in 1..Len(lod_xml.groups) :
              /\ g > 1 => lod_xml.groups[g - 1].name < lod_xml.groups[g].name
              /\ IF AncestorGroups(g) = {}
                 THEN lod_xml.groups[g].parent_index = NoParent
                 ELSE /\ lod_xml.groups[g].parent_index = NearestAncestorGroup(g) - 1
                      /\ lod_xml.groups[g].parent_index \in 0..(g - 2)
    /\ TransformsDone =>
          \A g \in 1..Len(lod_xml.groups) :
              /\ link_xml.link_index_by_group[g] \in 0..(Len(link_xml.links) - 1)
              /\ InSeq(link_xml.links[link_xml.link_index_by_group[g] + 1], g - 1)
              /\ (lod_xml.groups[g].parent_index # NoParent
                    /\ ~creates_new_link(bone_with_tag(lod_xml.children[
                           children_by_group(lod_xml.children, Len(lod_xml.groups), g - 1)[1] + 1].bone_tag)))
                   => link_xml.link_index_by_group[g]
                        = link_xml.link_index_by_group[lod_xml.groups[g].parent_index + 1]

\* groups for bones 0 and 2 with the bone between them without a group: the
\* group of bone 2 has the group of bone 0 as its parent and sits in its link
C26_Witness ==
    /\ TransformsDone
    /\ Len(lod_xml.groups) = 2
    /\ lod_xml.groups[1].name = 0 /\ lod_xml.groups[2].name = 2
    /\ frag_obj.bones[3].parent_index = 1
    /\ lod_xml.groups[2].parent_index = 0
    /\ link_xml.link_index_by_group = <<0, 0>>


(* ------------------------------ claim C27 -------------------------------- *)
\* how often the entry e occurs in the list F
Occurrences(F, e) == Cardinality({j \in 1..Len(F) : F[j] = e})

\* F holds every edge of E once and nothing else but dummy edges, in no more
\* buckets than were provided
KeepsEveryEdge(E, F) ==
    /\ \A k \in 1..Len(E) : Occurrences(F, E[k]) = 1
    /\ \A j \in 1..Len(F) : F[j] = dummy_edge \/ InSeq(E, F[j])
    /\ Cardinality({j \in 1..Len(F) : F[j] # dummy_edge}) = Len(E)
    /\ Len(F) <= MAX_EDGES_IN_BUCKET * 4 * Len(E)

\* C27: bucketing loses and duplicates nothing: every constructed edge is in
\* the final edge list exactly once, every other entry of the final list is
\* a padding dummy edge, and the 4 x edge count buckets provided are enough
\* for first-fit placement.
C27_BucketingKeepsEveryEdge ==
    [][pc = "cloth_buckets" => KeepsEveryEdge(cloth_xml.edges, cloth_xml'.edges)]_vars

\* C27 witness: three separate triangles and a fourth across them give 12
\* edges; the final list holds the 12 in five buckets among 28 dummy edges.
C27_Witness ==
    /\ pc = "cloth_verlet"
    /\ cloth_mesh.triangles = <<<<0, 1, 2>>, <<3, 4, 5>>, <<6, 7, 8>>, <<0, 3, 6>>>>
    /\ PinnedVerts = {}
    /\ Cardinality({j \in 1..Len(cloth_xml.edges) : IsConstructed(cloth_xml.edges[j])}) = 12
    /\ Cardinality({j \in 1..Len(cloth_xml.edges) : cloth_xml.edges[j] = dummy_edge}) = 28
    /\ \A s \in DirectedSides :
          Cardinality({j \in 1..Len(cloth_xml.edges) : MeshEnds(cloth_xml.edges[j]) = s}) = 1


(* ------------------------------ claim C28 -------------------------------- *)
\* a vector of fractions with no zero denominator
IsFinite(v) == \A c \in 1..Len(v) : v[c][2] # 0

\* C28: calculate_physics_lod_transforms completes with a finite center of
\* gravity for every link on every physics LOD with at least one group; a
\* group with a parent that owns no physics child and a link whose children
\* have a total pristine mass of zero do not make it fail.
C28_TransformsAlwaysComplete ==
    [][(pc = "transforms" /\ Len(lod_xml.groups) >= 1) =>
          /\ pc' = "archetype"
          /\ Len(link_xml'.links_center_of_gravity) = Len(link_xml'.links)
          /\ \A l \in 1..Len(link_xml'.links) :
                IsFinite(link_xml'.links_center_of_gravity[l])]_vars


(* ------------------------------ claim C30 -------------------------------- *)
\* the attributes kept in the first and in the second stored word
Data0Attrs ==
    {"is_small", "is_large", "is_pavement", "is_in_shelter", "is_too_steep_to_walk_on",
     "is_water", "audio_reverb_size", "audio_reverb_wet", "is_near_car_node",
     "is_interior", "is_isolated"}

\* what a mesh can hold of an attribute value: the fields of a word whose
\* mesh attribute is missing are off
Held(attrs) ==
    [f \in AttrNames |->
        IF (f \in Data0Attrs /\ nav.data0_present) \/ (f \notin Data0Attrs /\ nav.data1_present)
        THEN attrs[f]
        ELSE IF f \in BoolAttrs THEN FALSE
        ELSE IF f \in IntAttrs THEN 0
        ELSE [i \in 1..8 |-> FALSE]]

WordsIn16Bits ==
    \A p \in 1..Len(nav.polys) :
        nav.polys[p].data0 \in 0..65535 /\ nav.polys[p].data1 \in 0..65535

\* the setter leaves the attributes it was not called for as they were
OtherAttrsKept ==
    \A p \in 0..(Len(nav.polys) - 1) :
        \A f \in AttrNames \ {nav'.attr_name} :
            mesh_get_navmesh_poly_attributes(nav', p)[f]
                = mesh_get_navmesh_poly_attributes(nav, p)[f]

====
